---- MODULE Spec2Model ----
(***************************************************************************)
(* A model of the ingestion-and-categorization pipeline of the PLV         *)
(* bookkeeping tool: the Categorizer (src/services/categorizer.py), the    *)
(* rule and transaction records (src/models), the CSV and PDF importers    *)
(* (src/services/csv_importer.py, pdf_importer.py) and the CLI commands     *)
(* that persist the dataset (src/cli/main.py, src/services/persistence.py).*)
(***************************************************************************)
EXTENDS Integers, Sequences, FiniteSets, TLC

VARIABLES
    rules,          \* the rule list handed to Categorizer.__init__
    categorizer,    \* the Categorizer object: rules, description_rules, counterparty_rules, get_account_type
    transactions,   \* the in-memory transaction list the engine works on
    last,           \* the last call made: operation, arguments, pre-state and return value
    caller_ids,     \* the caller's own existing-ID set (the object it hands to the importers)
    csv_importer,   \* the CSVImporter object, once constructed
    pdf_importer,   \* the PDFImporter object, once constructed
    calls,          \* the parser invocations made, in order (at most MaxCalls)
    chain,          \* what a run of invocations returned so far, and how it was made
    disk,           \* the transactions of transactions.json, as PersistenceService keeps them
    cmd,            \* the last CLI command: its name, options and the dataset before it
    extraction,     \* the last call of the rule extractor: its arguments and what it returned
    statement,      \* the last call of the statement parser on a page of table rows
    parsing,        \* the text handed to parse_belgian_amount and what the call gave
    report          \* the arguments of generate_pnl_report and the report it returned

evars == <<rules, categorizer, transactions, last>>
ivars == <<caller_ids, csv_importer, pdf_importer, calls, chain>>
cvars == <<disk, cmd>>
pvars == <<extraction, statement, parsing, report>>
vars == <<rules, categorizer, transactions, last,
          caller_ids, csv_importer, pdf_importer, calls, chain, disk, cmd,
          extraction, statement, parsing, report>>

-----------------------------------------------------------------------------
(* Bounds of the model *)

MaxRules == 2       \* longest rule list handed to a Categorizer
MaxTx == 2          \* longest transaction list
MaxRows == 2        \* most data rows (or text lines) of an imported file
MaxCalls == 2       \* most parser invocations of one run

-----------------------------------------------------------------------------
(* Python values *)

\* None for identifiers (category, rule id, account); compared by equality only.
None == "None"
\* None for text fields (description, counterparty name, counterparty iban).
\* A text is a sequence of characters; a one-element sequence holding the word
\* "None" is no text, since every character is a single letter. A word that
\* the code searches for as a whole (MASTERCARD, AFREKENING) stands as one
\* character.
NoText == <<"None">>

\* str.lower(), character by character
LowerChar(c) ==
    CASE c = "A" -> "a"
      [] c = "B" -> "b"
      [] c = "C" -> "c"
      [] c = "E" -> "e"
      [] c = "M" -> "m"
      [] c = "MASTERCARD" -> "mastercard"
      [] c = "AFREKENING" -> "afrekening"
      [] c = "Datum" -> "datum"
      [] OTHER -> c

lower(s) == [i \in DOMAIN s |-> LowerChar(s[i])]

\* str.startswith
startswith(v, p) == Len(p) <= Len(v) /\ SubSeq(v, 1, Len(p)) = p

\* the `in` operator on strings (substring test)
contains(p, v) ==
    \E i \in 0..(Len(v) - Len(p)) : SubSeq(v, i + 1, i + Len(p)) = p

\* the sequence s without its elements that fail the test (a list comprehension)
RECURSIVE SelectRules(_, _)
SelectRules(s, fields) ==
    IF s = <<>> THEN <<>>
    ELSE IF Head(s).match_field \in fields
         THEN <<Head(s)>> \o SelectRules(Tail(s), fields)
         ELSE SelectRules(Tail(s), fields)

-----------------------------------------------------------------------------
(* The parts of the state a specification does not use *)

\* no importer constructed yet
NoImporter == [made |-> FALSE, shared |-> FALSE, ids |-> {}]

NoChain == [started |-> FALSE, initial |-> {}, kinds |-> {}, forced |-> FALSE,
            returned |-> <<>>]

NoCmd == [op |-> "none", year |-> 0, dry_run |-> FALSE, force |-> FALSE, before |-> <<>>]

IdleImport ==
    /\ caller_ids = {}
    /\ csv_importer = NoImporter
    /\ pdf_importer = NoImporter
    /\ calls = <<>>
    /\ chain = NoChain

IdleCli == disk = <<>> /\ cmd = NoCmd

NoExtraction ==
    [op |-> "none", files |-> <<>>, min_occurrences |-> 0, rules |-> <<>>, ambiguous |-> <<>>]
NoStatement ==
    [op |-> "none", file |-> <<>>, fiscal_year |-> 0, force |-> FALSE,
     ids_before |-> {}, ids_after |-> {}, transactions |-> <<>>,
     session |-> [imported |-> 0, skipped |-> 0, excluded |-> 0, errors |-> <<>>]]

NoParsing == [op |-> "none", value |-> <<>>, ok |-> FALSE, cents |-> 0, message |-> <<>>]
NoReport == [op |-> "none"]

IdleExtract == extraction = NoExtraction
IdleStatement == statement = NoStatement
IdleAmount == parsing = NoParsing
IdleReport == report = NoReport

-----------------------------------------------------------------------------
(* CategoryRule (src/models/rule.py) *)

valid_pattern_types == {"exact", "prefix", "contains", "regex"}
valid_match_fields == {"counterparty_name", "description", "counterparty_iban"}

\* CategoryRule.matches. A regex pattern of the model is a literal (it holds no
\* metacharacter), for which re.search with IGNORECASE is a case-insensitive
\* substring search.
matches(rule, value) ==
    IF value = NoText THEN FALSE
    ELSE LET value_lower == lower(value)
             pattern_lower == lower(rule.pattern)
         IN CASE rule.pattern_type = "exact" -> value_lower = pattern_lower
              [] rule.pattern_type = "prefix" -> startswith(value_lower, pattern_lower)
              [] rule.pattern_type = "contains" -> contains(pattern_lower, value_lower)
              [] rule.pattern_type = "regex" -> contains(pattern_lower, value_lower)
              [] OTHER -> FALSE

-----------------------------------------------------------------------------
(* Account lookup (src/services/persistence.py) *)

\* the configured accounts: iban -> account_type
Accounts == [BE_M |-> "maatschap", BE_S |-> "standard"]

\* PersistenceService.get_account_type_by_iban: 'standard' for unknown ibans
get_account_type_by_iban(iban) ==
    IF iban \in DOMAIN Accounts THEN Accounts[iban] ELSE "standard"

-----------------------------------------------------------------------------
(* Categorizer (src/services/categorizer.py) *)

\* sorted(rules, key=lambda r: r.priority): Python's sort is stable, so a rule
\* goes after every rule of lower or equal priority that stood before it.
RECURSIVE InsertByPriority(_, _)
InsertByPriority(r, s) ==
    IF s = <<>> THEN <<r>>
    ELSE IF s[Len(s)].priority <= r.priority
         THEN Append(s, r)
         ELSE Append(InsertByPriority(r, SubSeq(s, 1, Len(s) - 1)), s[Len(s)])

\* mutant of sorted: the list is used in the order it was passed
Unsorted(rs) == rs

\* mutant of sorted: a sort that is not stable (a rule goes before the rules of
\* equal priority that stood before it)
RECURSIVE SortedUnstable(_)
SortedUnstable(rs) ==
    IF rs = <<>> THEN <<>>
    ELSE LET rest == SortedUnstable(SubSeq(rs, 1, Len(rs) - 1))
             r == rs[Len(rs)]
             before == SelectSeq(rest, LAMBDA x : x.priority < r.priority)
             after == SelectSeq(rest, LAMBDA x : x.priority >= r.priority)
         IN before \o <<r>> \o after

RECURSIVE sorted(_)
sorted(rs) ==
    IF rs = <<>> THEN <<>>
    ELSE InsertByPriority(rs[Len(rs)], sorted(SubSeq(rs, 1, Len(rs) - 1)))

\* mutant of NewCategorizer: the counterparty view holds the name rules only
NewCategorizerNamesOnly(rs, lookup) ==
    LET srt == sorted(rs)
    IN [rules |-> srt,
        description_rules |-> SelectRules(srt, {"description"}),
        counterparty_rules |-> SelectRules(srt, {"counterparty_name"}),
        get_account_type |-> lookup]

\* Categorizer.__init__
NewCategorizer(rs, lookup) ==
    LET srt == sorted(rs)
    IN [rules |-> srt,
        description_rules |-> SelectRules(srt, {"description"}),
        counterparty_rules |-> SelectRules(srt, {"counterparty_name", "counterparty_iban"}),
        get_account_type |-> lookup]

\* Categorizer._get_account_type_for_transaction
get_account_type_for_transaction(c, tx) ==
    IF c.get_account_type = None THEN "standard"
    ELSE IF tx.own_account = None THEN "standard"
    ELSE get_account_type_by_iban(tx.own_account)

\* Categorizer._get_field_value
get_field_value(tx, field) ==
    CASE field = "counterparty_name" -> tx.counterparty_name
      [] field = "description" -> tx.description
      [] field = "counterparty_iban" -> tx.counterparty_iban
      [] OTHER -> NoText

\* mutant of ApplyRule: is_manual_override is left as it was
ApplyRuleKeepsOverride(tx, rule) ==
    [tx EXCEPT !.category = rule.target_category,
               !.matched_rule_id = rule.id,
               !.is_therapeutic = IF rule.is_therapeutic # None
                                  THEN rule.is_therapeutic = "True"
                                  ELSE @]

\* the assignments _try_rules makes on a match
ApplyRule(tx, rule) ==
    [tx EXCEPT !.category = rule.target_category,
               !.matched_rule_id = rule.id,
               !.is_manual_override = FALSE,
               !.is_therapeutic = IF rule.is_therapeutic # None
                                  THEN rule.is_therapeutic = "True"
                                  ELSE @]

\* Categorizer._try_rules: the loop over the rule list, from index i on
RECURSIVE try_rules_from(_, _, _)
try_rules_from(tx, rs, i) ==
    IF i > Len(rs) THEN [tx |-> tx, ok |-> FALSE, rule_id |-> None]
    ELSE IF ~rs[i].enabled THEN try_rules_from(tx, rs, i + 1)
    ELSE IF matches(rs[i], get_field_value(tx, rs[i].match_field))
         THEN [tx |-> ApplyRule(tx, rs[i]), ok |-> TRUE, rule_id |-> rs[i].id]
         ELSE try_rules_from(tx, rs, i + 1)

try_rules(tx, rs) == try_rules_from(tx, rs, 1)

\* mutant of categorize: the full rule list for every account type
categorize_one_phase(c, tx, force) ==
    IF (tx.category # None /\ ~force) \/ tx.is_excluded \/ (tx.is_manual_override /\ ~force)
    THEN [tx |-> tx, ok |-> FALSE, rule_id |-> None, tried |-> <<>>]
    ELSE LET p == try_rules(tx, c.rules)
         IN [tx |-> p.tx, ok |-> p.ok, rule_id |-> p.rule_id, tried |-> <<"rules">>]

\* mutant of categorize: only the already-categorized skip is made
categorize_unguarded(c, tx, force) ==
    IF tx.category # None /\ ~force
    THEN [tx |-> tx, ok |-> FALSE, rule_id |-> None, tried |-> <<>>]
    ELSE categorize_one_phase(c, [tx EXCEPT !.is_excluded = FALSE,
                                            !.is_manual_override = FALSE], TRUE)

\* mutant of categorize: a partnership account gets the description rules only
categorize_description_only(c, tx, force) ==
    IF (tx.category # None /\ ~force) \/ tx.is_excluded \/ (tx.is_manual_override /\ ~force)
    THEN [tx |-> tx, ok |-> FALSE, rule_id |-> None, tried |-> <<>>]
    ELSE LET p == IF get_account_type_for_transaction(c, tx) = "maatschap"
                  THEN try_rules(tx, c.description_rules)
                  ELSE try_rules(tx, c.rules)
         IN [tx |-> p.tx, ok |-> p.ok, rule_id |-> p.rule_id, tried |-> <<"rules">>]

\* mutant of categorize: a transaction that has a category is categorized again
categorize_regardless(c, tx, force) ==
    IF tx.is_excluded
    THEN [tx |-> tx, ok |-> FALSE, rule_id |-> None, tried |-> <<>>]
    ELSE IF tx.is_manual_override /\ ~force
    THEN [tx |-> tx, ok |-> FALSE, rule_id |-> None, tried |-> <<>>]
    ELSE IF get_account_type_for_transaction(c, tx) = "maatschap"
    THEN LET p1 == try_rules(tx, c.description_rules)
         IN IF p1.ok
            THEN [tx |-> p1.tx, ok |-> TRUE, rule_id |-> p1.rule_id,
                  tried |-> <<"description_rules">>]
            ELSE LET p2 == try_rules(p1.tx, c.counterparty_rules)
                 IN [tx |-> p2.tx, ok |-> p2.ok, rule_id |-> p2.rule_id,
                     tried |-> <<"description_rules", "counterparty_rules">>]
    ELSE LET p == try_rules(tx, c.rules)
         IN [tx |-> p.tx, ok |-> p.ok, rule_id |-> p.rule_id, tried |-> <<"rules">>]

\* Categorizer.categorize: the transaction after the call, the returned pair and
\* the rule lists handed to _try_rules, in order
categorize(c, tx, force) ==
    IF tx.category # None /\ ~force
    THEN [tx |-> tx, ok |-> FALSE, rule_id |-> None, tried |-> <<>>]
    ELSE IF tx.is_excluded
    THEN [tx |-> tx, ok |-> FALSE, rule_id |-> None, tried |-> <<>>]
    ELSE IF tx.is_manual_override /\ ~force
    THEN [tx |-> tx, ok |-> FALSE, rule_id |-> None, tried |-> <<>>]
    ELSE IF get_account_type_for_transaction(c, tx) = "maatschap"
    THEN LET p1 == try_rules(tx, c.description_rules)
         IN IF p1.ok
            THEN [tx |-> p1.tx, ok |-> TRUE, rule_id |-> p1.rule_id,
                  tried |-> <<"description_rules">>]
            ELSE LET p2 == try_rules(p1.tx, c.counterparty_rules)
                 IN IF p2.ok
                    THEN [tx |-> p2.tx, ok |-> TRUE, rule_id |-> p2.rule_id,
                          tried |-> <<"description_rules", "counterparty_rules">>]
                    ELSE [tx |-> p2.tx, ok |-> FALSE, rule_id |-> None,
                          tried |-> <<"description_rules", "counterparty_rules">>]
    ELSE LET p == try_rules(tx, c.rules)
         IN [tx |-> p.tx, ok |-> p.ok, rule_id |-> p.rule_id, tried |-> <<"rules">>]

\* rules_applied[rule_id] += 1 on a Counter
CounterAdd(counter, key) ==
    IF key \in DOMAIN counter
    THEN [counter EXCEPT ![key] = @ + 1]
    ELSE [k \in DOMAIN counter \cup {key} |-> IF k = key THEN 1 ELSE counter[k]]

EmptyStats ==
    [categorized |-> 0, uncategorized |-> 0, skipped |-> 0,
     rules_applied |-> [k \in {} |-> 0],
     maatschap_transactions |-> 0, standard_transactions |-> 0]

\* mutant of categorize_all_from: every transaction that was not categorized
\* counts as uncategorized, whatever its category
RECURSIVE categorize_all_blind(_, _, _, _, _, _)
categorize_all_blind(c, txs, force, i, st, oks) ==
    IF i > Len(txs) THEN [transactions |-> txs, stats |-> st, oks |-> oks]
    ELSE IF txs[i].is_excluded
    THEN categorize_all_blind(c, txs, force, i + 1,
            [st EXCEPT !.skipped = @ + 1], Append(oks, FALSE))
    ELSE LET r == categorize(c, txs[i], force)
             st2 == IF r.ok
                    THEN [st EXCEPT !.categorized = @ + 1]
                    ELSE [st EXCEPT !.uncategorized = @ + 1]
         IN categorize_all_blind(c, [txs EXCEPT ![i] = r.tx], force, i + 1,
                                 st2, Append(oks, r.ok))

\* Categorizer.categorize_all: the loop over the transactions, from index i on,
\* with the list and the counters so far; oks[k] tells whether the k-th
\* transaction was counted as categorized
RECURSIVE categorize_all_from(_, _, _, _, _, _)
categorize_all_from(c, txs, force, i, st, oks) ==
    IF i > Len(txs) THEN [transactions |-> txs, stats |-> st, oks |-> oks]
    ELSE IF txs[i].is_excluded
    THEN categorize_all_from(c, txs, force, i + 1,
            [st EXCEPT !.skipped = @ + 1], Append(oks, FALSE))
    ELSE LET account_type == get_account_type_for_transaction(c, txs[i])
             st1 == IF account_type = "maatschap"
                    THEN [st EXCEPT !.maatschap_transactions = @ + 1]
                    ELSE [st EXCEPT !.standard_transactions = @ + 1]
             r == categorize(c, txs[i], force)
             st2 == IF r.ok
                    THEN [st1 EXCEPT !.categorized = @ + 1,
                                     !.rules_applied =
                                        IF r.rule_id # None /\ r.rule_id # ""
                                        THEN CounterAdd(@, r.rule_id) ELSE @]
                    ELSE IF r.tx.category = None
                    THEN [st1 EXCEPT !.uncategorized = @ + 1]
                    ELSE st1
         IN categorize_all_from(c, [txs EXCEPT ![i] = r.tx], force, i + 1,
                                st2, Append(oks, r.ok))

categorize_all(c, txs, force) == categorize_all_from(c, txs, force, 1, EmptyStats, <<>>)

-----------------------------------------------------------------------------
(* Transaction (src/models/transaction.py) *)

\* Transaction.__post_init__: the checks a constructed transaction must pass
post_init(tx) ==
    /\ tx.source_type \in {"bank_csv", "mastercard_pdf"}
    /\ tx.currency = "EUR"
    /\ tx.amount # 0
    /\ ~(tx.is_therapeutic /\ tx.category # "omzet")

\* the dataclass constructor: the fields the callers pass, the categorization
\* state at its defaults. The street, postal/city, bic, country and communication
\* fields are copied through by every operation and left out.
Transaction(id, source_file, source_type, statement_number, transaction_number, booking_date, value_date, amount, currency, own, name, iban, desc) ==
    [id |-> id, source_file |-> source_file, source_type |-> source_type,
     statement_number |-> statement_number,
     transaction_number |-> transaction_number,
     booking_date |-> booking_date, value_date |-> value_date,
     amount |-> amount, currency |-> currency, own_account |-> own,
     counterparty_name |-> name, counterparty_iban |-> iban,
     description |-> desc, category |-> None, matched_rule_id |-> None,
     is_therapeutic |-> FALSE, is_manual_override |-> FALSE,
     is_excluded |-> FALSE, exclusion_reason |-> None]

\* a ledger transaction of the engine's specifications, booked in the given year
NewTx(id, year, own, name, iban, desc) ==
    Transaction(id, "export.csv", "bank_csv", <<"1">>, <<"1">>,
                <<year, 1, 15>>, <<year, 1, 15>>, -100, "EUR", own, name, iban, desc)

-----------------------------------------------------------------------------
(* The inputs of the rule engine *)

Fields == <<"description", "counterparty_name", "counterparty_iban">>
RuleIdAt == <<"r1", "r2", "r3", "r4">>
TargetAt == <<"huur", "omzet", "verzekering", "telefoon">>

\* the pattern and pattern type of the model's rules, by match field
PatternOf(field) ==
    CASE field = "description" -> <<"e", "M">>
      [] field = "counterparty_name" -> <<"a", "C">>
      [] OTHER -> <<"b", "e", "1">>
PatternTypeOf(field) ==
    CASE field = "description" -> "contains"
      [] field = "counterparty_name" -> "prefix"
      [] OTHER -> "exact"

\* the k-th rule of a rule list of the ordering specification
MkRule(k, field, priority, enabled) ==
    [id |-> RuleIdAt[k], pattern |-> PatternOf(field),
     pattern_type |-> PatternTypeOf(field), match_field |-> field,
     target_category |-> TargetAt[k], priority |-> priority,
     enabled |-> enabled, is_therapeutic |-> None]

RuleChoices == [field : {Fields[i] : i \in 1..3}, priority : {10, 20}, enabled : BOOLEAN]

RuleLists ==
    UNION {{[k \in 1..n |-> MkRule(k, ch[k].field, ch[k].priority, ch[k].enabled)] :
                ch \in [1..n -> RuleChoices]} : n \in 0..MaxRules}

\* texts of the transactions' fields: one the field's pattern matches, one it
\* does not (or no text)
Descriptions == {<<"R", "E", "m", "o">>, <<"m", "e">>}
Names == {<<"A", "c", "m", "e">>, NoText}
Ibans == {<<"B", "E", "1">>, NoText}
OwnAccounts == {None, "BE_S", "BE_M"}
Lookups == {None, "get_account_type_by_iban"}

\* the categorization states a transaction of the ordering specification starts in
EngineTxStates ==
    {[category |-> None, is_manual_override |-> FALSE, is_excluded |-> FALSE],
     [category |-> "auto", is_manual_override |-> FALSE, is_excluded |-> FALSE],
     [category |-> "auto", is_manual_override |-> TRUE, is_excluded |-> FALSE],
     [category |-> None, is_manual_override |-> FALSE, is_excluded |-> TRUE]}

EngineTxs ==
    {[NewTx("t1", 2025, own, name, iban, desc)
        EXCEPT !.category = st.category,
               !.is_manual_override = st.is_manual_override,
               !.is_excluded = st.is_excluded] :
        own \in OwnAccounts, name \in Names, iban \in Ibans,
        desc \in Descriptions, st \in EngineTxStates}

NoCall ==
    [op |-> "none", index |-> 0, force |-> FALSE, before |-> <<>>,
     ok |-> FALSE, rule_id |-> None, tried |-> <<>>, stats |-> EmptyStats,
     oks |-> <<>>]

-----------------------------------------------------------------------------
(* Operations of the rule engine *)

\* one call categorizer.categorize(transactions[i], force)
Categorize(i, force) ==
    LET r == categorize(categorizer, transactions[i], force)
    IN /\ transactions' = [transactions EXCEPT ![i] = r.tx]
       /\ last' = [op |-> "categorize", index |-> i, force |-> force,
                   before |-> transactions, ok |-> r.ok, rule_id |-> r.rule_id,
                   tried |-> r.tried, stats |-> EmptyStats, oks |-> <<>>]
       /\ UNCHANGED <<rules, categorizer, ivars, cvars, pvars>>

\* The ordering specification: a Categorizer built from any rule list of the
\* bounds, and one transaction it is called on.
InitEngine ==
    /\ rules \in RuleLists
    /\ \E lookup \in Lookups : categorizer = NewCategorizer(rules, lookup)
    /\ \E tx \in EngineTxs : transactions = <<tx>>
    /\ last = NoCall
    /\ IdleImport
    /\ IdleCli
    /\ IdleExtract
    /\ IdleStatement
    /\ IdleAmount
    /\ IdleReport

NextEngine ==
    \E i \in DOMAIN transactions, force \in BOOLEAN : Categorize(i, force)

SpecEngine == InitEngine /\ [][NextEngine]_vars

-----------------------------------------------------------------------------
(* What the claims speak of *)

\* the transaction the last call was made on, before and after the call
Pre == last.before[last.index]
Post == transactions[last.index]

\* the call was not one of categorize's three skips
NotSkipped(tx, force) ==
    /\ ~tx.is_excluded
    /\ force \/ (tx.category = None /\ ~tx.is_manual_override)

AccountTypeOf(tx) == get_account_type_for_transaction(categorizer, tx)

\* positions, in the constructor's list, of the enabled rules that match tx
Hits(tx) ==
    {i \in DOMAIN rules :
        rules[i].enabled /\ matches(rules[i], get_field_value(tx, rules[i].match_field))}

\* the rule at position i is evaluated before the rule at position j
Before(i, j) ==
    \/ rules[i].priority < rules[j].priority
    \/ rules[i].priority = rules[j].priority /\ i < j

\* of a non-empty set of positions, the one evaluated first
First(S) == CHOOSE i \in S : \A j \in S \ {i} : Before(i, j)

\* tx after rule w (and no other) categorized it
CategorizedBy(pre, post, w) ==
    post = [pre EXCEPT !.category = w.target_category,
                       !.matched_rule_id = w.id,
                       !.is_manual_override = FALSE,
                       !.is_therapeutic =
                            CASE w.is_therapeutic = "True" -> TRUE
                              [] w.is_therapeutic = "False" -> FALSE
                              [] OTHER -> pre.is_therapeutic]

-----------------------------------------------------------------------------
(* C1 *)

\* C1: for a transaction on a standard (or unknown) account that categorize
\* does not skip, the transaction gets the target_category and id of the first
\* enabled matching rule in ascending priority, ties in the order of the
\* constructor's list; nothing else of it changes beyond what that one rule
\* sets, and with no enabled matching rule it is left as it was.
C1_FirstMatchWins ==
    (/\ last.op = "categorize"
     /\ NotSkipped(Pre, last.force)
     /\ AccountTypeOf(Pre) # "maatschap")
    => IF Hits(Pre) = {}
       THEN Post = Pre /\ ~last.ok /\ last.rule_id = None
       ELSE LET w == rules[First(Hits(Pre))]
            IN /\ CategorizedBy(Pre, Post, w)
               /\ last.ok
               /\ last.rule_id = w.id

\* two enabled matching rules of equal priority, a disabled one aside: the
\* earlier of the list was applied
C1_Witness ==
    /\ last.op = "categorize"
    /\ NotSkipped(Pre, last.force)
    /\ AccountTypeOf(Pre) # "maatschap"
    /\ Len(rules) = 2
    /\ Hits(Pre) = {1, 2}
    /\ rules[1].priority = rules[2].priority
    /\ rules[1].match_field # rules[2].match_field
    /\ Post.category = rules[1].target_category
    /\ Post.matched_rule_id = rules[1].id

-----------------------------------------------------------------------------
(* C2 *)

\* the rule list is two enabled rules of priorities 10 and 20 that both match tx
TwoMatching(tx) ==
    /\ Len(rules) = 2
    /\ {rules[1].priority, rules[2].priority} = {10, 20}
    /\ Hits(tx) = {1, 2}

P10 == IF rules[1].priority = 10 THEN rules[1] ELSE rules[2]
P20 == IF rules[1].priority = 10 THEN rules[2] ELSE rules[1]

\* the one case in which the two-phase order overrides the priorities
DescriptionOutranks(tx) ==
    /\ AccountTypeOf(tx) = "maatschap"
    /\ P10.match_field # "description"
    /\ P20.match_field = "description"

\* C2 as stated: of two enabled matching rules with priorities 10 and 20 the
\* priority-10 rule's category is assigned, for every list order, every pair of
\* match fields and every account type.
C2_Original ==
    (/\ last.op = "categorize"
     /\ NotSkipped(Pre, last.force)
     /\ TwoMatching(Pre))
    => Post.category = P10.target_category

\* C2 as amended: the priority-10 rule's category is assigned for every list
\* order, except on a partnership account when the priority-10 rule is a
\* counterparty-field rule and the priority-20 rule a description-field rule,
\* where the priority-20 rule's category is assigned.
C2_PriorityWins ==
    (/\ last.op = "categorize"
     /\ NotSkipped(Pre, last.force)
     /\ TwoMatching(Pre))
    => IF DescriptionOutranks(Pre)
       THEN Post.category = P20.target_category /\ last.rule_id = P20.id
       ELSE Post.category = P10.target_category /\ last.rule_id = P10.id

\* the priority-10 rule stands second in the list and is applied, on a
\* partnership account with both rules in the same phase
C2_Witness ==
    /\ last.op = "categorize"
    /\ NotSkipped(Pre, last.force)
    /\ TwoMatching(Pre)
    /\ rules[2].priority = 10
    /\ AccountTypeOf(Pre) = "maatschap"
    /\ rules[1].match_field = "counterparty_name"
    /\ rules[2].match_field = "counterparty_iban"
    /\ Post.category = rules[2].target_category

-----------------------------------------------------------------------------
(* C3 *)

DescriptionHits(tx) == {i \in Hits(tx) : rules[i].match_field = "description"}

\* C3: on a partnership account categorize hands the counterparty rules to
\* _try_rules only if no enabled description rule matches, and when some
\* enabled description rule matches the category and rule id are those of the
\* first matching description rule, whatever the counterparty rules' priorities.
C3_DescriptionFirst ==
    (/\ last.op = "categorize"
     /\ NotSkipped(Pre, last.force)
     /\ AccountTypeOf(Pre) = "maatschap")
    => /\ (\E k \in DOMAIN last.tried : last.tried[k] = "counterparty_rules")
            => DescriptionHits(Pre) = {}
       /\ DescriptionHits(Pre) # {}
            => LET w == rules[First(DescriptionHits(Pre))]
               IN Post.category = w.target_category /\ Post.matched_rule_id = w.id

\* a matching counterparty rule of priority 10 loses to a matching description
\* rule of priority 20
C3_Witness ==
    /\ last.op = "categorize"
    /\ NotSkipped(Pre, last.force)
    /\ AccountTypeOf(Pre) = "maatschap"
    /\ Len(rules) = 2
    /\ Hits(Pre) = {1, 2}
    /\ rules[1].match_field = "counterparty_name" /\ rules[1].priority = 10
    /\ rules[2].match_field = "description" /\ rules[2].priority = 20
    /\ Post.category = rules[2].target_category
    /\ last.tried = <<"description_rules">>

-----------------------------------------------------------------------------
(* The categorization specification: transactions are constructed, run        *)
(* through the engine one by one or all together, and edited by hand.        *)

\* the rules of this specification: r1 and r4 carry a therapeutic flag
CatRule(id, field, target, priority, ther) ==
    [id |-> id, pattern |-> PatternOf(field), pattern_type |-> PatternTypeOf(field),
     match_field |-> field, target_category |-> target, priority |-> priority,
     enabled |-> TRUE, is_therapeutic |-> ther]

RuleA == CatRule("r1", "counterparty_name", "omzet", 10, "True")
RuleB == CatRule("r2", "description", "huur", 20, "None")
RuleC == CatRule("r3", "description", "omzet", 20, "False")

CatRuleLists == {<<RuleB, RuleA>>, <<RuleA, RuleC>>}

\* the categories the categories file declares (PersistenceService.validate_category)
Categories == {"omzet", "huur"}

TxIdAt == <<"t1", "t2", "t3", "t4">>

\* own account and texts of the transactions of this specification: a standard
\* and a partnership account that both rule fields match, and one nothing matches
TxProfiles ==
    {[own |-> None, name |-> <<"A", "c", "m", "e">>, desc |-> <<"R", "E", "m", "o">>],
     [own |-> "BE_M", name |-> <<"A", "c", "m", "e">>, desc |-> <<"R", "E", "m", "o">>],
     [own |-> None, name |-> NoText, desc |-> <<"m", "e">>]}

\* the transactions a parser constructs in this specification; a settlement
\* row comes out of the ledger parser excluded
ParsedTxs(id) ==
    {[NewTx(id, 2025, p.own, p.name, NoText, p.desc)
        EXCEPT !.is_excluded = ex,
               !.exclusion_reason = IF ex THEN "Mastercard settlement - details in PDF" ELSE None] :
        p \in TxProfiles, ex \in BOOLEAN}

\* a parser constructs a transaction and the caller appends it to the list
Construct(tx) ==
    /\ Len(transactions) < MaxTx
    /\ post_init(tx)
    /\ transactions' = Append(transactions, tx)
    /\ last' = [NoCall EXCEPT !.op = "construct"]
    /\ UNCHANGED <<rules, categorizer, ivars, cvars, pvars>>

\* one call categorizer.categorize_all(transactions, force)
CategorizeAll(force) ==
    LET r == categorize_all(categorizer, transactions, force)
    IN /\ transactions # <<>>
       /\ transactions' = r.transactions
       /\ last' = [op |-> "categorize_all", index |-> 0, force |-> force,
                   before |-> transactions, ok |-> FALSE, rule_id |-> None,
                   tried |-> <<>>, stats |-> r.stats, oks |-> r.oks]
       /\ UNCHANGED <<rules, categorizer, ivars, cvars, pvars>>

\* the first position of the list whose transaction has the id, 0 if none
FindById(txs, id) ==
    IF \E i \in DOMAIN txs : txs[i].id = id
    THEN CHOOSE i \in DOMAIN txs : txs[i].id = id /\ \A j \in 1..(i - 1) : txs[j].id # id
    ELSE 0

\* the assignments of the CLI command assign on the transaction it finds
assign(tx, category, therapeutic) ==
    [tx EXCEPT !.category = category,
               !.is_manual_override = TRUE,
               !.matched_rule_id = None,
               !.is_therapeutic = IF therapeutic THEN TRUE ELSE @]

\* plv assign TRANSACTION_ID CATEGORY [--therapeutic], on the list in memory
Assign(id, category, therapeutic) ==
    LET i == FindById(transactions, id)
    IN /\ category \in Categories
       /\ ~(therapeutic /\ category # "omzet")
       /\ i # 0
       /\ transactions' = [transactions EXCEPT ![i] = assign(@, category, therapeutic)]
       /\ last' = [NoCall EXCEPT !.op = "assign", !.index = i]
       /\ UNCHANGED <<rules, categorizer, ivars, cvars, pvars>>

\* the Streamlit category save (_save_category) on the selected rows
SaveCategory(idxs, new_category) ==
    /\ idxs # {}
    /\ transactions' = [i \in DOMAIN transactions |->
                            IF i \in idxs
                            THEN [transactions[i] EXCEPT !.category = new_category]
                            ELSE transactions[i]]
    /\ last' = [NoCall EXCEPT !.op = "save_category"]
    /\ UNCHANGED <<rules, categorizer, ivars, cvars, pvars>>

InitCat ==
    /\ rules \in CatRuleLists
    /\ categorizer = NewCategorizer(rules, "get_account_type_by_iban")
    /\ transactions = <<>>
    /\ last = NoCall
    /\ IdleImport
    /\ IdleCli
    /\ IdleExtract
    /\ IdleStatement
    /\ IdleAmount
    /\ IdleReport

NextCat ==
    \/ \E tx \in ParsedTxs(TxIdAt[Len(transactions) + 1]) : Construct(tx)
    \/ \E i \in DOMAIN transactions, force \in BOOLEAN : Categorize(i, force)
    \/ \E force \in BOOLEAN : CategorizeAll(force)
    \/ \E i \in DOMAIN transactions, category \in Categories, therapeutic \in BOOLEAN :
            Assign(transactions[i].id, category, therapeutic)
    \/ \E idxs \in SUBSET DOMAIN transactions, new_category \in Categories \cup {None} :
            SaveCategory(idxs, new_category)

SpecCat == InitCat /\ [][NextCat]_vars

-----------------------------------------------------------------------------
(* C6 *)

\* C6: in every reachable state a transaction with is_therapeutic = true has
\* category 'omzet'.
C6_TherapeuticOnlyOmzet ==
    \A i \in DOMAIN transactions :
        transactions[i].is_therapeutic => transactions[i].category = "omzet"

-----------------------------------------------------------------------------
(* C7 *)

\* the transaction is excluded, or force is off and it has a category or a
\* manual override
Skips(tx, force) ==
    \/ tx.is_excluded
    \/ ~force /\ (tx.category # None \/ tx.is_manual_override)

\* C7: categorize and categorize_all leave every field of a transaction they
\* skip unchanged and report it as not categorized: categorize returns
\* (False, None), categorize_all does not count it in categorized.
C7_SkipsLeaveUnchanged ==
    /\ (last.op = "categorize" /\ Skips(Pre, last.force))
        => Post = Pre /\ ~last.ok /\ last.rule_id = None
    /\ last.op = "categorize_all"
        => /\ \A i \in DOMAIN last.before :
                Skips(last.before[i], last.force)
                    => transactions[i] = last.before[i] /\ ~last.oks[i]
           /\ last.stats.categorized =
                Cardinality({i \in DOMAIN last.oks : last.oks[i]})

\* a batch run without force over a manually categorized transaction that a
\* rule matches, beside a transaction the run did categorize
C7_Witness ==
    /\ last.op = "categorize_all"
    /\ ~last.force
    /\ \E i, j \in DOMAIN last.before :
        /\ last.before[i].is_manual_override
        /\ ~last.before[i].is_excluded
        /\ Hits(last.before[i]) # {}
        /\ transactions[i] = last.before[i]
        /\ last.oks[j]

-----------------------------------------------------------------------------
(* C8 *)

\* positions of the rules the engine tries first for tx: on a partnership
\* account the matching description rules when there are any
ApplicableHits(tx) ==
    IF AccountTypeOf(tx) = "maatschap" /\ DescriptionHits(tx) # {}
    THEN DescriptionHits(tx)
    ELSE Hits(tx)

-----------------------------------------------------------------------------
(* Amount and date parsing (src/lib/belgian_numbers.py, csv_importer.py) *)

\* A cell is a sequence of characters; "EUR" and the euro sign stand as one
\* character each.
DigitChars == {"0", "1", "2", "3", "4", "5", "6", "7", "8", "9"}

DigitVal(c) ==
    CASE c = "0" -> 0 [] c = "1" -> 1 [] c = "2" -> 2 [] c = "3" -> 3
      [] c = "4" -> 4 [] c = "5" -> 5 [] c = "6" -> 6 [] c = "7" -> 7
      [] c = "8" -> 8 [] OTHER -> 9

\* str.strip()
RECURSIVE lstrip(_)
lstrip(t) == IF t # <<>> /\ Head(t) = " " THEN lstrip(Tail(t)) ELSE t
RECURSIVE rstrip(_)
rstrip(t) ==
    IF t # <<>> /\ t[Len(t)] = " " THEN rstrip(SubSeq(t, 1, Len(t) - 1)) ELSE t
strip(t) == rstrip(lstrip(t))

\* str.replace(c, "") for the characters of a set
Without(t, cs) == SelectSeq(t, LAMBDA c : c \notin cs)

\* the value of the first n characters of a digit string
RECURSIVE DigitsValTo(_, _)
DigitsValTo(t, n) ==
    IF n = 0 THEN 0 ELSE 10 * DigitsValTo(t, n - 1) + DigitVal(t[n])
DigitsVal(t) == DigitsValTo(t, Len(t))

\* Decimal(text) for a text without sign: digits with at most one point and at
\* least one digit. The value is kept in cents (the model's amounts have at most
\* two decimals); exponents, underscores and the special values are no cells of
\* the model.
IsDecimalLiteral(t) ==
    /\ \A i \in DOMAIN t : t[i] \in DigitChars \cup {"."}
    /\ Cardinality({i \in DOMAIN t : t[i] = "."}) <= 1
    /\ \E i \in DOMAIN t : t[i] \in DigitChars

DecimalCents(t) ==
    LET dots == {i \in DOMAIN t : t[i] = "."}
        dot == IF dots = {} THEN Len(t) + 1 ELSE CHOOSE i \in dots : TRUE
        whole == SubSeq(t, 1, dot - 1)
        frac == SubSeq(t, dot + 1, Len(t))
        cents == CASE Len(frac) = 0 -> 0
                   [] Len(frac) = 1 -> 10 * DigitVal(frac[1])
                   [] OTHER -> 10 * DigitVal(frac[1]) + DigitVal(frac[2])
    IN 100 * DigitsVal(whole) + cents

\* the value of F at the value of e: e is evaluated once, however often F uses
\* its argument
At(F(_), e) == CHOOSE r \in {F(x) : x \in {e}} : TRUE

\* str.replace(",", ".")
CommaToPoint(t) == [i \in DOMAIN t |-> IF t[i] = "," THEN "." ELSE t[i]]

NoAmount == [ok |-> FALSE, cents |-> 0, digits |-> <<>>]

\* parse_belgian_amount, lines 21-23: the currency marks and the blanks go
amount_text(text) == Without(strip(Without(strip(text), {"EUR", "euro"})), {" "})

\* mutant of amount_trailing: a trailing sign is taken off and forgotten
amount_trailing_dropped(text) ==
    IF text # <<>> /\ text[Len(text)] \in {"-", "+"}
    THEN [sign |-> "", text |-> SubSeq(text, 1, Len(text) - 1)]
    ELSE [sign |-> "", text |-> text]

\* lines 25-30: a trailing sign is taken off; only a minus is kept
amount_trailing(text) ==
    IF text # <<>> /\ text[Len(text)] = "-"
    THEN [sign |-> "-", text |-> SubSeq(text, 1, Len(text) - 1)]
    ELSE IF text # <<>> /\ text[Len(text)] = "+"
    THEN [sign |-> "", text |-> SubSeq(text, 1, Len(text) - 1)]
    ELSE [sign |-> "", text |-> text]

\* lines 32-34: a leading sign is taken off; a leading minus sets the sign, a
\* leading plus leaves the trailing one
amount_leading(st) ==
    IF st.text # <<>> /\ st.text[1] \in {"+", "-"}
    THEN [sign |-> IF st.text[1] = "-" THEN "-" ELSE st.sign, text |-> Tail(st.text)]
    ELSE st

\* lines 39-45: Decimal(sign + normalized)
amount_decimal(st) ==
    IF st.sign = "" /\ st.text # <<>> /\ st.text[1] \in {"+", "-"}
    THEN \* Decimal reads one sign of its own
         IF ~IsDecimalLiteral(Tail(st.text)) THEN NoAmount
         ELSE [ok |-> TRUE,
               cents |-> IF st.text[1] = "-" THEN 0 - DecimalCents(Tail(st.text))
                         ELSE DecimalCents(Tail(st.text)),
               digits |-> Tail(st.text)]
    ELSE IF ~IsDecimalLiteral(st.text) THEN NoAmount
    ELSE [ok |-> TRUE,
          cents |-> IF st.sign = "-" THEN 0 - DecimalCents(st.text) ELSE DecimalCents(st.text),
          digits |-> st.text]

\* lines 36-39: the digit check, the thousands points go, the comma becomes the
\* point
amount_normalized(st) ==
    IF SelectSeq(st.text, LAMBDA c : c \in DigitChars) = <<>> THEN NoAmount
    ELSE At(amount_decimal,
            [sign |-> st.sign, text |-> CommaToPoint(Without(st.text, {"."}))])

\* parse_belgian_amount: ok is false where the function raises ValueError;
\* cents is the Decimal's value and digits its unsigned literal
parse_belgian_amount(value) ==
    IF strip(value) = <<>> THEN NoAmount
    ELSE At(amount_normalized, At(amount_leading, At(amount_trailing, amount_text(value))))

\* A date cell is the text's layout and its three numbers; strptime accepts it
\* when the layout is the format's and the numbers are a calendar date.
DaysIn(y, m) ==
    CASE m \in {4, 6, 9, 11} -> 30
      [] m = 2 -> IF y % 4 = 0 /\ (y % 100 # 0 \/ y % 400 = 0) THEN 29 ELSE 28
      [] OTHER -> 31

IsDate(y, m, d) == m \in 1..12 /\ d >= 1 /\ d <= DaysIn(y, m)

\* CSVImporter._parse_belgian_date: %d/%m/%Y, then %d-%m-%Y, then %Y-%m-%d
parse_belgian_date(cell) ==
    IF cell.layout \in {"d/m/Y", "d-m-Y", "Y-m-d"} /\ IsDate(cell.y, cell.m, cell.d)
    THEN [ok |-> TRUE, date |-> <<cell.y, cell.m, cell.d>>]
    ELSE [ok |-> FALSE, date |-> <<0, 0, 0>>]

\* hashlib.md5(text).hexdigest()[:8], taken as a digest without collisions:
\* the text itself, as one token
md5_8(date, amount, description) == ToString(<<date, amount, description>>)

\* str(Decimal): the sign and the literal
DecimalStr(dec) == IF dec.cents < 0 THEN <<"-">> \o dec.digits ELSE dec.digits

\* the message of the ValueError parse_belgian_amount raises for the text
amount_error(value) ==
    IF strip(value) = <<>> THEN <<"Amount is required">>
    ELSE <<"Invalid Belgian amount: ">> \o value

-----------------------------------------------------------------------------
(* The ledger parser (src/services/csv_importer.py) *)

HEADER_LINES_TO_SKIP == 13

\* the three MASTERCARD_SETTLEMENT_PATTERNS, searched ignoring case: the first
\* word, anything, the second word; or the card's customer reference
settlement_search(text) ==
    LET t == lower(text)
    IN \/ \E i, j \in DOMAIN t : i < j /\ t[i] = "mastercard" /\ t[j] = "afrekening"
       \/ \E i, j \in DOMAIN t : i < j /\ t[i] = "kredietkaart" /\ t[j] = "afrekening"
       \/ \E i \in DOMAIN t : t[i] = "6287522061"

\* CSVImporter._is_mastercard_settlement
is_mastercard_settlement(tx) ==
    \/ tx.description # NoText /\ tx.description # <<>> /\ settlement_search(tx.description)
    \/ tx.counterparty_name # NoText /\ tx.counterparty_name # <<>>
        /\ settlement_search(tx.counterparty_name)

\* the currency cell, .strip().upper(): a cell of the model has no blanks
upper(c) == IF c = "eur" THEN "EUR" ELSE c

\* `cell.strip() or None`
OrNone(cell) == IF strip(cell) = <<>> THEN NoText ELSE strip(cell)

\* CSVImporter._parse_row, from the parsed dates and amount on (lines 252-304)
row_transaction(row, source_file, booking, value, amount) ==
    LET statement_number == strip(row.statement_number)
        transaction_number == strip(row.transaction_number)
        numbered == statement_number # <<>> /\ transaction_number # <<>>
        description == IF strip(row.description) # <<>> THEN strip(row.description)
                       ELSE strip(row.communications)
    IN Transaction(
           IF numbered THEN statement_number \o <<"-">> \o transaction_number
           ELSE <<"NONUM-", md5_8(booking.date, DecimalStr(amount), description)>>,
           source_file, "bank_csv",
           IF numbered THEN statement_number ELSE OrNone(statement_number),
           IF numbered THEN transaction_number ELSE OrNone(transaction_number),
           booking.date, value.date, amount.cents, upper(row.currency),
           IF row.account = "" THEN None ELSE row.account,
           OrNone(row.counterparty_name), OrNone(row.counterparty_account),
           description)

\* the outcome of a row: the transaction, or the message of what the row raised
row_outcome(c) ==
    IF ~c.booking.ok \/ ~c.value.ok
    THEN [ok |-> FALSE, tx |-> c.tx, message |-> "Cannot parse date"]
    ELSE IF ~c.amount.ok
    THEN [ok |-> FALSE, tx |-> c.tx, message |-> "Invalid Belgian amount"]
    ELSE IF c.tx.currency # "EUR"
    THEN [ok |-> FALSE, tx |-> c.tx, message |-> "Unsupported currency"]
    ELSE IF ~post_init(c.tx)
    THEN [ok |-> FALSE, tx |-> c.tx, message |-> "Transaction amount cannot be zero"]
    ELSE [ok |-> TRUE, tx |-> c.tx, message |-> ""]

\* CSVImporter._parse_row: the dates, the amount, the id, the currency check and
\* the constructor, in this order
parse_row(row, source_file) ==
    At(LAMBDA c : row_outcome(
           [c EXCEPT !.tx = row_transaction(row, source_file, c.booking, c.value, c.amount)]),
       [booking |-> parse_belgian_date(row.booking_date),
        value |-> parse_belgian_date(row.value_date),
        amount |-> parse_belgian_amount(row.amount),
        tx |-> <<>>])

\* ImportSession after construction: the counters and the error list
NewSession == [imported |-> 0, skipped |-> 0, excluded |-> 0, errors |-> <<>>]

\* the state of one import_file call: the importer's existing_ids, the returned
\* list and the session
NewRun(ids) == [ids |-> ids, transactions |-> <<>>, session |-> NewSession]

\* csv_parsed_row that drops a row that failed to parse without an error entry
csv_parsed_row_silent(run, parsed, line_num, source_file, fiscal_year, force) ==
    IF ~parsed.ok THEN run
    ELSE IF fiscal_year # 0 /\ parsed.tx.booking_date[1] # fiscal_year THEN run
    ELSE IF is_mastercard_settlement(parsed.tx)
    THEN [run EXCEPT !.session.excluded = @ + 1,
                     !.transactions =
                         Append(@, [parsed.tx EXCEPT
                                       !.is_excluded = TRUE,
                                       !.exclusion_reason = "Mastercard settlement - details in PDF"])]
    ELSE IF parsed.tx.id \in run.ids /\ ~force
    THEN [run EXCEPT !.session.skipped = @ + 1]
    ELSE [run EXCEPT !.transactions = Append(@, parsed.tx),
                     !.ids = @ \cup {parsed.tx.id},
                     !.session.imported = @ + 1]

\* csv_parsed_row that counts a settlement row without returning it
csv_parsed_row_dropping(run, parsed, line_num, source_file, fiscal_year, force) ==
    IF ~parsed.ok
    THEN [run EXCEPT !.session.errors =
             Append(@, [file |-> source_file, line |-> line_num,
                        message |-> parsed.message])]
    ELSE IF fiscal_year # 0 /\ parsed.tx.booking_date[1] # fiscal_year THEN run
    ELSE IF is_mastercard_settlement(parsed.tx)
    THEN [run EXCEPT !.session.excluded = @ + 1]
    ELSE IF parsed.tx.id \in run.ids /\ ~force
    THEN [run EXCEPT !.session.skipped = @ + 1]
    ELSE [run EXCEPT !.transactions = Append(@, parsed.tx),
                     !.ids = @ \cup {parsed.tx.id},
                     !.session.imported = @ + 1]

\* csv_parsed_row without the registration of the imported id
csv_parsed_row_unregistered(run, parsed, line_num, source_file, fiscal_year, force) ==
    IF ~parsed.ok
    THEN [run EXCEPT !.session.errors =
             Append(@, [file |-> source_file, line |-> line_num,
                        message |-> parsed.message])]
    ELSE IF fiscal_year # 0 /\ parsed.tx.booking_date[1] # fiscal_year THEN run
    ELSE IF is_mastercard_settlement(parsed.tx)
    THEN [run EXCEPT !.session.excluded = @ + 1,
                     !.transactions = Append(@, [parsed.tx EXCEPT !.is_excluded = TRUE])]
    ELSE IF parsed.tx.id \in run.ids /\ ~force
    THEN [run EXCEPT !.session.skipped = @ + 1]
    ELSE [run EXCEPT !.transactions = Append(@, parsed.tx),
                     !.session.imported = @ + 1]

\* the body of the row loop of CSVImporter.import_file for one row that has been
\* parsed
csv_parsed_row(run, parsed, line_num, source_file, fiscal_year, force) ==
    IF ~parsed.ok
    THEN [run EXCEPT !.session.errors =
             Append(@, [file |-> source_file, line |-> line_num,
                        message |-> parsed.message])]
    ELSE IF fiscal_year # 0 /\ parsed.tx.booking_date[1] # fiscal_year THEN run
    ELSE IF is_mastercard_settlement(parsed.tx)
    THEN [run EXCEPT !.session.excluded = @ + 1,
                     !.transactions =
                         Append(@, [parsed.tx EXCEPT
                                       !.is_excluded = TRUE,
                                       !.exclusion_reason = "Mastercard settlement - details in PDF"])]
    ELSE IF parsed.tx.id \in run.ids /\ ~force
    THEN [run EXCEPT !.session.skipped = @ + 1]
    ELSE [run EXCEPT !.transactions = Append(@, parsed.tx),
                     !.ids = @ \cup {parsed.tx.id},
                     !.session.imported = @ + 1]

\* the body of the row loop of CSVImporter.import_file for one row
csv_row(run, row, line_num, source_file, fiscal_year, force) ==
    IF row.ncols < 15 THEN run
    ELSE At(LAMBDA parsed :
                csv_parsed_row(run, parsed, line_num, source_file, fiscal_year, force),
            parse_row(row, source_file))

\* the row loop, from row i on. The rows are read one by one inside the outer
\* try: when the reader raises after the file's last listed row (a byte that
\* cannot be decoded, a record the csv module rejects), the rows before it have
\* been processed and the handler of lines 129-135 adds a file-level error.
RECURSIVE csv_rows(_, _, _, _, _)
csv_rows(run, file, i, fiscal_year, force) ==
    IF i > Len(file.rows)
    THEN IF file.broken
         THEN [run EXCEPT !.session.errors =
                  Append(@, [file |-> file.name, line |-> 0,
                             message |-> "Failed to read file"])]
         ELSE run
    ELSE At(LAMBDA next : csv_rows(next, file, i + 1, fiscal_year, force),
            csv_row(run, file.rows[i], HEADER_LINES_TO_SKIP + i, file.name,
                    fiscal_year, force))

\* csv_import_file that reports nothing for a file that cannot be opened
csv_import_file_unreported(ids, file, fiscal_year, force) ==
    IF ~file.readable THEN NewRun(ids)
    ELSE csv_rows(NewRun(ids), file, 1, fiscal_year, force)

\* CSVImporter.import_file (import_from_bytes runs the same loop on the
\* decoded lines): a file that cannot be opened gives one error without a line
csv_import_file(ids, file, fiscal_year, force) ==
    IF ~file.readable
    THEN [NewRun(ids) EXCEPT !.session.errors =
             <<[file |-> file.name, line |-> 0, message |-> "Failed to read file"]>>]
    ELSE csv_rows(NewRun(ids), file, 1, fiscal_year, force)

-----------------------------------------------------------------------------
(* The statement parser, text-line shape (src/services/pdf_importer.py) *)

\* datetime.now().year
now_year == 2026

\* A text line is held as the cells the line pattern splits it into: the two
\* dates, the description, the amount and what follows it. A cell that does not
\* fit its part of the pattern makes the line not match.

\* \d+(?:[.,]\d+)?
IsAmountToken(t) ==
    LET seps == {i \in DOMAIN t : t[i] \in {".", ","}}
    IN /\ t # <<>>
       /\ \A i \in DOMAIN t : t[i] \in DigitChars \cup {".", ","}
       /\ Cardinality(seps) <= 1
       /\ \A i \in seps : i > 1 /\ i < Len(t)

line_matches(line) ==
    /\ line.tx_date.layout = "d/m"
    /\ line.settlement_date.layout = "d/m"
    /\ line.description # <<>>
    /\ IsAmountToken(line.amount)
    /\ line.suffix \in {"EUR+", "EUR-"}

abs(n) == IF n < 0 THEN 0 - n ELSE n

\* date.strftime('%Y%m%d') and date.isoformat(), as one token
DateToken(date) == ToString(date)

\* line_transaction with the table shape's id, which counts the lines
line_transaction_sequenced(line, source_file, statement_number, sequence, year, parsed) ==
    LET description == strip(line.description)
        booking == <<year, line.tx_date.m, line.tx_date.d>>
        value == <<year, line.settlement_date.m, line.settlement_date.d>>
        amount == IF line.suffix = "EUR-" THEN 0 - abs(parsed.cents) ELSE abs(parsed.cents)
    IN Transaction(
           <<"MC-">> \o statement_number \o <<"-", ToString(sequence)>>,
           source_file, "mastercard_pdf", statement_number, <<ToString(sequence)>>,
           booking, value, amount, "EUR", None,
           IF description # <<>>
           THEN SubSeq(description, 1, IF Len(description) < 100 THEN Len(description) ELSE 100)
           ELSE NoText,
           NoText, description)

\* line_transaction with an id of the statement number and the date alone
line_transaction_dated(line, source_file, statement_number, sequence, year, parsed) ==
    LET description == strip(line.description)
        booking == <<year, line.tx_date.m, line.tx_date.d>>
        value == <<year, line.settlement_date.m, line.settlement_date.d>>
        amount == IF line.suffix = "EUR-" THEN 0 - abs(parsed.cents) ELSE abs(parsed.cents)
    IN Transaction(
           <<"MC-">> \o statement_number \o <<"-", DateToken(booking)>>,
           source_file, "mastercard_pdf", statement_number, <<ToString(sequence)>>,
           booking, value, amount, "EUR", None,
           IF description # <<>>
           THEN SubSeq(description, 1, IF Len(description) < 100 THEN Len(description) ELSE 100)
           ELSE NoText,
           NoText, description)

\* PDFImporter._parse_text_line, from the parsed amount on (lines 241-288)
line_transaction(line, source_file, statement_number, sequence, year, parsed) ==
    LET description == strip(line.description)
        booking == <<year, line.tx_date.m, line.tx_date.d>>
        value == <<year, line.settlement_date.m, line.settlement_date.d>>
        amount == IF line.suffix = "EUR-" THEN 0 - abs(parsed.cents) ELSE abs(parsed.cents)
    IN Transaction(
           <<"MC-">> \o statement_number \o
               <<"-", DateToken(booking), "-",
                 md5_8(booking, DecimalStr([parsed EXCEPT !.cents = amount]), description)>>,
           source_file, "mastercard_pdf", statement_number, <<ToString(sequence)>>,
           booking, value, amount, "EUR", None,
           IF description # <<>>
           THEN SubSeq(description, 1, IF Len(description) < 100 THEN Len(description) ELSE 100)
           ELSE NoText,
           NoText, description)

\* PDFImporter._parse_text_line: ok is false where the function returns None
parse_text_line(line, source_file, statement_number, sequence, statement_year) ==
    At(LAMBDA c :
           IF ~line_matches(line) THEN [ok |-> FALSE, tx |-> c.tx]
           ELSE IF ~IsDate(c.year, line.tx_date.m, line.tx_date.d)
                    \/ ~IsDate(c.year, line.settlement_date.m, line.settlement_date.d)
           THEN [ok |-> FALSE, tx |-> c.tx]
           ELSE IF ~c.parsed.ok \/ c.tx.amount = 0 THEN [ok |-> FALSE, tx |-> c.tx]
           ELSE [ok |-> TRUE, tx |-> c.tx],
       At(LAMBDA c : [c EXCEPT !.tx = line_transaction(line, source_file, statement_number,
                                                        sequence, c.year, c.parsed)],
          [year |-> IF statement_year # 0 THEN statement_year ELSE now_year,
           parsed |-> parse_belgian_amount(line.amount),
           tx |-> <<>>]))

\* pdf_parsed_line that reports a row or line that gave no transaction, as the
\* ledger parser does
pdf_parsed_line_reporting(run, parsed, fiscal_year, force) ==
    IF ~parsed.ok
    THEN [run EXCEPT !.session.errors =
             Append(@, [file |-> "62_statement.pdf", line |-> 1, message |-> "Cannot parse"])]
    ELSE IF fiscal_year # 0 /\ parsed.tx.booking_date[1] # fiscal_year THEN run
    ELSE IF parsed.tx.id \in run.ids /\ ~force
    THEN [run EXCEPT !.session.skipped = @ + 1]
    ELSE [run EXCEPT !.transactions = Append(@, parsed.tx),
                     !.ids = @ \cup {parsed.tx.id},
                     !.session.imported = @ + 1,
                     !.tx_sequence = @ + 1]

\* the body of the line loop of PDFImporter.import_from_bytes for one line that
\* has been parsed; tx_sequence is carried in the run
pdf_parsed_line(run, parsed, fiscal_year, force) ==
    IF ~parsed.ok THEN run
    ELSE IF fiscal_year # 0 /\ parsed.tx.booking_date[1] # fiscal_year THEN run
    ELSE IF parsed.tx.id \in run.ids /\ ~force
    THEN [run EXCEPT !.session.skipped = @ + 1]
    ELSE [run EXCEPT !.transactions = Append(@, parsed.tx),
                     !.ids = @ \cup {parsed.tx.id},
                     !.session.imported = @ + 1,
                     !.tx_sequence = @ + 1]

pdf_line(run, line, file, statement_year, fiscal_year, force) ==
    At(LAMBDA parsed : pdf_parsed_line(run, parsed, fiscal_year, force),
       parse_text_line(line, file.name, file.statement_number, run.tx_sequence,
                       statement_year))

RECURSIVE pdf_lines(_, _, _, _, _, _)
pdf_lines(run, file, i, statement_year, fiscal_year, force) ==
    IF i > Len(file.lines) THEN run
    ELSE At(LAMBDA next : pdf_lines(next, file, i + 1, statement_year, fiscal_year, force),
            pdf_line(run, file.lines[i], file, statement_year, fiscal_year, force))

\* PDFImporter.import_from_bytes on a statement of one page: the statement
\* year is the page header's, else the fiscal year, else the current year
pdf_import_from_bytes(ids, file, fiscal_year, force) ==
    IF ~file.readable
    THEN [NewRun(ids) EXCEPT !.session.errors =
             <<[file |-> file.name, line |-> 0, message |-> "Failed to read PDF"]>>]
    ELSE At(LAMBDA run : [ids |-> run.ids, transactions |-> run.transactions,
                          session |-> run.session],
            pdf_lines([ids |-> ids, transactions |-> <<>>, session |-> NewSession,
                       tx_sequence |-> 1],
                      file, 1,
                      IF file.header_year # 0 THEN file.header_year
                      ELSE IF fiscal_year # 0 THEN fiscal_year ELSE now_year,
                      fiscal_year, force))

-----------------------------------------------------------------------------
(* The statement parser, table shape (src/services/pdf_importer.py) *)

\* f"{sequence:04d}"
SequenceFormat(n) ==
    (IF n < 10 THEN "000" ELSE IF n < 100 THEN "00" ELSE IF n < 1000 THEN "0" ELSE "")
        \o ToString(n)

\* the year strptime reads from %y
TwoDigitYear(y) == IF y < 69 THEN 2000 + y ELSE 1900 + y

\* PDFImporter._parse_date: %d/%m/%Y, then %d/%m/%y; ok is false where it raises
pdf_parse_date(cell) ==
    IF cell.layout = "d/m/Y" /\ IsDate(cell.y, cell.m, cell.d)
    THEN [ok |-> TRUE, date |-> <<cell.y, cell.m, cell.d>>]
    ELSE IF cell.layout = "d/m/y" /\ IsDate(TwoDigitYear(cell.y), cell.m, cell.d)
    THEN [ok |-> TRUE, date |-> <<TwoDigitYear(cell.y), cell.m, cell.d>>]
    ELSE [ok |-> FALSE, date |-> <<0, 0, 0>>]

\* any(header in row[0].lower() for header in ['datum', 'date', 'transactie'])
is_header_cell(cell) ==
    \E i \in DOMAIN cell.text : LowerChar(cell.text[i]) \in {"datum", "date", "transactie"}

\* re.match(r'\d{2}/\d{2}/\d{2,4}', date_str)
is_date_like(cell) == cell.layout \in {"d/m/Y", "d/m/y"}

\* str.lstrip('+')
RECURSIVE lstrip_plus(_)
lstrip_plus(t) == IF t # <<>> /\ Head(t) = "+" THEN lstrip_plus(Tail(t)) ELSE t

\* mutant of table_amount: the parsed amount keeps its own sign
table_amount_as_parsed(is_refund, cents) == cents

\* lines 350-353: an expense is negative, a refund positive
table_amount(is_refund, cents) == IF ~is_refund THEN 0 - abs(cents) ELSE abs(cents)

\* PDFImporter._parse_row, from the amount cell on (lines 337-380)
table_row_transaction(row, source_file, statement_number, sequence, booking, value) ==
    LET description == strip(row.description)
        amount_str == strip(row.amount)
        is_refund == startswith(amount_str, <<"+">>)
        parsed == parse_belgian_amount(strip(lstrip_plus(amount_str)))
        amount == table_amount(is_refund, parsed.cents)
    IN IF amount_str = <<>> \/ ~parsed.ok \/ amount = 0
       THEN [ok |-> FALSE, tx |-> <<>>]
       ELSE [ok |-> TRUE,
             tx |-> Transaction(
                 <<"MC-">> \o statement_number \o <<"-", SequenceFormat(sequence)>>,
                 source_file, "mastercard_pdf", statement_number, <<ToString(sequence)>>,
                 booking, value, amount, "EUR", None,
                 SubSeq(description, 1,
                        IF Len(description) < 100 THEN Len(description) ELSE 100),
                 NoText, description)]

\* PDFImporter._parse_row: ok is false where the function returns None or raises
\* (import_file swallows what a row raises)
pdf_parse_row(row, source_file, statement_number, sequence) ==
    IF is_header_cell(row.date) THEN [ok |-> FALSE, tx |-> <<>>]
    ELSE IF ~is_date_like(row.date) THEN [ok |-> FALSE, tx |-> <<>>]
    ELSE IF ~pdf_parse_date(row.date).ok THEN [ok |-> FALSE, tx |-> <<>>]
    ELSE IF strip(row.description) = <<>> THEN [ok |-> FALSE, tx |-> <<>>]
    ELSE At(LAMBDA booking :
                table_row_transaction(row, source_file, statement_number, sequence, booking,
                    IF pdf_parse_date(row.settlement).ok
                    THEN pdf_parse_date(row.settlement).date ELSE booking),
            pdf_parse_date(row.date).date)

\* the row loop of PDFImporter.import_file, from row i of the page's table on;
\* a row of fewer than 4 cells is passed over
RECURSIVE pdf_rows(_, _, _, _, _)
pdf_rows(run, file, i, fiscal_year, force) ==
    IF i > Len(file.rows) THEN run
    ELSE IF file.rows[i].ncols < 4 THEN pdf_rows(run, file, i + 1, fiscal_year, force)
    ELSE At(LAMBDA next : pdf_rows(next, file, i + 1, fiscal_year, force),
            At(LAMBDA parsed : pdf_parsed_line(run, parsed, fiscal_year, force),
               pdf_parse_row(file.rows[i], file.name, file.statement_number,
                             run.tx_sequence)))

\* PDFImporter.import_file on a statement of one page with one table
pdf_import_file(ids, file, fiscal_year, force) ==
    IF ~file.readable
    THEN [NewRun(ids) EXCEPT !.session.errors =
             <<[file |-> file.name, line |-> 0, message |-> "Failed to read PDF"]>>]
    ELSE At(LAMBDA run : [ids |-> run.ids, transactions |-> run.transactions,
                          session |-> run.session],
            pdf_rows([ids |-> ids, transactions |-> <<>>, session |-> NewSession,
                      tx_sequence |-> 1],
                     file, 1, fiscal_year, force))

-----------------------------------------------------------------------------
(* The inputs of the parsers *)

\* the fiscal_year argument: 0 is no filter (None; `if fiscal_year and ...`
\* treats both alike)
FiscalYears == {0, 2025}

DateCell(d, m, y) == [layout |-> "d/m/Y", d |-> d, m |-> m, y |-> y]

\* a ledger row of at least 15 cells
Row(statement_number, transaction_number, date, amount, description) ==
    [ncols |-> 15, statement_number |-> statement_number,
     transaction_number |-> transaction_number,
     booking_date |-> date, value_date |-> date, amount |-> amount,
     currency |-> "EUR", account |-> "BE_S",
     counterparty_name |-> <<"A", "c", "m", "e">>,
     counterparty_account |-> <<"B", "E", "1">>,
     description |-> description, communications |-> <<>>]

RowRent ==
    Row(<<"7">>, <<"1">>, DateCell(15, 1, 2025),
        <<"-", "1", ".", "2", "3", "4", ",", "5", "6">>, <<"R", "E", "m", "o">>)
RowSettlement ==
    Row(<<"7">>, <<"2">>, DateCell(28, 2, 2025),
        <<"-", "5", "0", ",", "0", "0">>, <<"MASTERCARD", " ", "AFREKENING">>)
RowNoNumber ==
    Row(<<" ">>, <<>>, DateCell(3, 3, 2025),
        <<"2", ",", "5", " ", "EUR">>, <<"B", "E", "A", "T", "S">>)
RowBadAmount ==
    Row(<<"7">>, <<"3">>, DateCell(4, 3, 2025), <<"n", "/", "a">>, <<"m", "e">>)
RowLastYear ==
    Row(<<"6">>, <<"9">>, DateCell(30, 12, 2024), <<"8", "0", ",", "0", "0">>, <<"m", "e">>)
RowShort == [RowRent EXCEPT !.ncols = 9]

CsvRows == {RowRent, RowSettlement, RowNoNumber, RowBadAmount, RowLastYear, RowShort}

RECURSIVE SeqsUpTo(_, _)
SeqsUpTo(S, n) ==
    IF n = 0 THEN {<<>>}
    ELSE LET shorter == SeqsUpTo(S, n - 1)
         IN shorter \cup {Append(q, x) : q \in {r \in shorter : Len(r) = n - 1}, x \in S}

\* a ledger file: readable is false when it cannot be opened; broken is true
\* when reading raises after the rows listed
CsvFile(readable, rows, broken) ==
    [name |-> "export.csv", readable |-> readable, rows |-> rows, broken |-> broken]

\* the ledger files: every row sequence of 1..MaxRows rows, a file that cannot
\* be opened, and the files of one row after which reading fails
CsvFiles ==
    {CsvFile(TRUE, rows, FALSE) : rows \in SeqsUpTo(CsvRows, MaxRows) \ {<<>>}}
    \cup {CsvFile(FALSE, <<>>, FALSE)}
    \cup {CsvFile(TRUE, <<row>>, TRUE) : row \in {RowRent, RowSettlement, RowBadAmount}}

TextLine(d, m, description, amount, suffix) ==
    [tx_date |-> [layout |-> "d/m", d |-> d, m |-> m],
     settlement_date |-> [layout |-> "d/m", d |-> d, m |-> m],
     description |-> description, amount |-> amount, suffix |-> suffix]

LineShop == TextLine(3, 10, <<"S", "H", "O", "P">>, <<"3", "8", ",", "5", "1">>, "EUR-")
LineRefund == TextLine(4, 10, <<"S", "H", "O", "P">>, <<"1", "0", ",", "0", "0">>, "EUR+")
LineTotal == TextLine(0, 0, <<"T", "o", "t", "a", "l">>, <<"4", "8", ",", "5", "1">>, "")

PdfLines == {LineShop, LineRefund, LineTotal}

\* the statements: one page with or without the period header
PdfFiles ==
    {[name |-> "62_statement.pdf", statement_number |-> <<"6", "2">>,
      readable |-> TRUE, header_year |-> y, lines |-> lines] :
        y \in {0, 2025}, lines \in SeqsUpTo(PdfLines, MaxRows) \ {<<>>}}

\* the caller's set of existing ids before the first parser is constructed
InitialIds == {{}, {<<"7", "-", "1">>}}

-----------------------------------------------------------------------------
(* The parsers as objects *)

\* __init__ of both parsers: `self.existing_ids = existing_ids or set()`. A
\* non-empty set is kept by reference (the parser and the caller share it); an
\* empty one is falsy and a new set takes its place.
NewImporter(existing_ids) ==
    [made |-> TRUE, shared |-> existing_ids # {}, ids |-> {}]

\* self.existing_ids
existing_ids_of(importer) == IF importer.shared THEN caller_ids ELSE importer.ids

Ids(txs) == [i \in DOMAIN txs |-> txs[i].id]

\* the record of one parser call and the running record of all calls
Called(kind, file, fiscal_year, force, before, run) ==
    [kind |-> kind, file |-> file, fiscal_year |-> fiscal_year, force |-> force,
     ids_before |-> before, ids_after |-> run.ids,
     transactions |-> run.transactions, session |-> run.session]

Chained(kind, force, run) ==
    [chain EXCEPT !.started = TRUE,
                  !.kinds = @ \cup {kind},
                  !.forced = @ \/ force,
                  !.returned = @ \o Ids(run.transactions)]

\* CSVImporter(existing_ids = the caller's set)
NewCSVImporter ==
    /\ ~csv_importer.made
    /\ csv_importer' = NewImporter(caller_ids)
    /\ UNCHANGED <<caller_ids, pdf_importer, calls, chain, evars, cvars, pvars>>

\* PDFImporter(existing_ids = the caller's set)
NewPDFImporter ==
    /\ ~pdf_importer.made
    /\ pdf_importer' = NewImporter(caller_ids)
    /\ UNCHANGED <<caller_ids, csv_importer, calls, chain, evars, cvars, pvars>>

\* one call csv_importer.import_file(file, fiscal_year, force)
CsvImport(file, fiscal_year, force) ==
    /\ csv_importer.made
    /\ Len(calls) < MaxCalls
    /\ \E run \in {csv_import_file(existing_ids_of(csv_importer), file, fiscal_year, force)} :
          /\ IF csv_importer.shared
             THEN caller_ids' = run.ids /\ UNCHANGED csv_importer
             ELSE csv_importer' = [csv_importer EXCEPT !.ids = run.ids]
                  /\ UNCHANGED caller_ids
          /\ calls' = Append(calls, Called("csv", file, fiscal_year, force,
                                           existing_ids_of(csv_importer), run))
          /\ chain' = Chained("csv", force, run)
    /\ UNCHANGED <<pdf_importer, evars, cvars, pvars>>

\* one call pdf_importer.import_from_bytes(file, fiscal_year, force)
PdfImport(file, fiscal_year, force) ==
    /\ pdf_importer.made
    /\ Len(calls) < MaxCalls
    /\ \E run \in {pdf_import_from_bytes(existing_ids_of(pdf_importer), file, fiscal_year, force)} :
          /\ IF pdf_importer.shared
             THEN caller_ids' = run.ids /\ UNCHANGED pdf_importer
             ELSE pdf_importer' = [pdf_importer EXCEPT !.ids = run.ids]
                  /\ UNCHANGED caller_ids
          /\ calls' = Append(calls, Called("pdf", file, fiscal_year, force,
                                           existing_ids_of(pdf_importer), run))
          /\ chain' = Chained("pdf", force, run)
    /\ UNCHANGED <<csv_importer, evars, cvars, pvars>>

IdleEngine ==
    /\ rules = <<>>
    /\ categorizer = NewCategorizer(<<>>, None)
    /\ transactions = <<>>
    /\ last = NoCall

InitImport ==
    /\ caller_ids \in InitialIds
    /\ csv_importer = NoImporter
    /\ pdf_importer = NoImporter
    /\ calls = <<>>
    /\ chain = [NoChain EXCEPT !.initial = caller_ids]
    /\ IdleEngine
    /\ IdleCli
    /\ IdleExtract
    /\ IdleStatement
    /\ IdleAmount
    /\ IdleReport

NextImport ==
    \/ NewCSVImporter
    \/ NewPDFImporter
    \/ \E file \in CsvFiles, fiscal_year \in FiscalYears, force \in BOOLEAN :
          CsvImport(file, fiscal_year, force)
    \/ \E file \in PdfFiles, fiscal_year \in FiscalYears, force \in BOOLEAN :
          PdfImport(file, fiscal_year, force)

SpecImport == InitImport /\ [][NextImport]_vars

-----------------------------------------------------------------------------
(* The command line on the persisted dataset (src/cli/main.py,                *)
(* src/services/persistence.py)                                               *)

MaxDisk == 3

\* PersistenceService.load_transactions: a record the constructor rejects is
\* logged and left out; the rest is filtered by the year when one is given
load_transactions(file, fiscal_year) ==
    SelectSeq(file, LAMBDA tx : /\ post_init(tx)
                                /\ (fiscal_year = 0 \/ tx.booking_date[1] = fiscal_year))

\* PersistenceService.get_existing_transaction_ids
get_existing_transaction_ids(file) ==
    {load_transactions(file, 0)[i].id : i \in DOMAIN load_transactions(file, 0)}

\* PersistenceService.load_rules: the enabled rules, sorted by priority
load_rules(rules_file) == sorted(SelectSeq(rules_file, LAMBDA r : r.enabled))

\* import_csv_files: one importer for all files, the returned lists concatenated
RECURSIVE import_csv_files_from(_, _, _, _, _, _)
import_csv_files_from(files, i, ids, fiscal_year, force, all_transactions) ==
    IF i > Len(files) THEN all_transactions
    ELSE At(LAMBDA run : import_csv_files_from(files, i + 1, run.ids, fiscal_year, force,
                                               all_transactions \o run.transactions),
            csv_import_file(ids, files[i], fiscal_year, force))

import_csv_files(files, existing_ids, fiscal_year, force) ==
    import_csv_files_from(files, 1, existing_ids, fiscal_year, force, <<>>)

\* the --year option: none given is the current year
YearOption(year) == IF year = 0 THEN now_year ELSE year

CliYears == {0, 2024, 2025}

\* the ledger files of the command line's runs
CliFiles ==
    {CsvFile(TRUE, rows, FALSE) :
        rows \in {<<RowRent, RowSettlement>>, <<RowLastYear>>, <<RowLastYear, RowRent>>}}

\* the rules file
CliRules == {<<>>, <<RuleB, RuleA>>}

Command(op, year, dry_run, force) ==
    [op |-> op, year |-> year, dry_run |-> dry_run, force |-> force, before |-> disk]

\* plv import FILE [--year Y] [--dry-run] [--force], for ledger files
CliImport(file, year, dry_run, force) ==
    /\ Len(disk) < MaxDisk
    /\ \E new \in {import_csv_files(<<file>>, get_existing_transaction_ids(disk),
                                    YearOption(year), force)} :
          disk' = IF ~dry_run /\ new # <<>>
                  THEN load_transactions(disk, 0) \o SelectSeq(new, LAMBDA tx : ~tx.is_excluded)
                  ELSE disk
    /\ cmd' = Command("import", year, dry_run, force)
    /\ UNCHANGED <<evars, ivars, pvars>>

\* plv categorize [--year Y] [--all] [--dry-run]
CliCategorize(year, all_transactions, dry_run) ==
    /\ \E loaded \in {load_transactions(disk, YearOption(year))} :
          disk' = IF loaded = <<>> \/ load_rules(rules) = <<>> \/ dry_run
                  THEN disk
                  ELSE categorize_all(NewCategorizer(load_rules(rules), None), loaded,
                                      all_transactions).transactions
    /\ cmd' = Command("categorize", year, dry_run, all_transactions)
    /\ UNCHANGED <<evars, ivars, pvars>>

\* plv assign TRANSACTION_ID CATEGORY [--therapeutic]
CliAssign(id, category, therapeutic) ==
    /\ category \in Categories
    /\ ~(therapeutic /\ category # "omzet")
    /\ \E loaded \in {load_transactions(disk, 0)} :
          /\ FindById(loaded, id) # 0
          /\ disk' = [loaded EXCEPT ![FindById(loaded, id)] = assign(@, category, therapeutic)]
    /\ cmd' = Command("assign", 0, FALSE, therapeutic)
    /\ UNCHANGED <<evars, ivars, pvars>>

InitCli ==
    /\ disk = <<>>
    /\ cmd = NoCmd
    /\ rules \in CliRules
    /\ categorizer = NewCategorizer(<<>>, None)
    /\ transactions = <<>>
    /\ last = NoCall
    /\ IdleImport
    /\ IdleExtract
    /\ IdleStatement
    /\ IdleAmount
    /\ IdleReport

NextCli ==
    \/ \E file \in CliFiles, year \in CliYears, dry_run \in BOOLEAN, force \in BOOLEAN :
          CliImport(file, year, dry_run, force)
    \/ \E year \in CliYears, all_transactions \in BOOLEAN, dry_run \in BOOLEAN :
          CliCategorize(year, all_transactions, dry_run)
    \/ \E id \in {<<"7", "-", "1">>, <<"6", "-", "9">>}, category \in Categories,
          therapeutic \in BOOLEAN :
          CliAssign(id, category, therapeutic)

SpecCli == InitCli /\ [][NextCli]_vars

-----------------------------------------------------------------------------
(* Claims on the parsers *)

\* the same ledger file imported twice in a row by one importer, with the same
\* fiscal-year filter and without force, the second pass starting from the ids
\* the first pass left
SameFileTwice ==
    /\ Len(calls) = 2
    /\ calls[1].kind = "csv" /\ calls[2].kind = "csv"
    /\ calls[1].file = calls[2].file
    /\ calls[1].fiscal_year = calls[2].fiscal_year
    /\ ~calls[1].force /\ ~calls[2].force
    /\ calls[2].ids_before = calls[1].ids_after

\* C4 as stated: the second pass returns no transaction and skips as many rows
\* as the first pass returned transactions.
C4_Original ==
    SameFileTwice =>
        /\ calls[2].transactions = <<>>
        /\ calls[2].session.skipped = Len(calls[1].transactions)

\* C4: when the same ledger file is imported twice with the same fiscal-year
\* filter, force = false and the existing-ID set carried over, the second pass
\* imports nothing (imported = 0, and every transaction it returns is an
\* excluded settlement row, the same ones the first pass returned), and its
\* skipped count is the first pass's imported count plus its skipped count.
C4_SecondPassImportsNothing ==
    SameFileTwice =>
        /\ calls[2].session.imported = 0
        /\ \A i \in DOMAIN calls[2].transactions : calls[2].transactions[i].is_excluded
        /\ calls[2].transactions =
              SelectSeq(calls[1].transactions, LAMBDA tx : tx.is_excluded)
        /\ calls[2].session.skipped =
              calls[1].session.imported + calls[1].session.skipped
        /\ calls[2].ids_after = calls[2].ids_before

C4_Witness ==
    /\ SameFileTwice
    /\ calls[1].session.imported > 0
    /\ calls[1].session.excluded > 0
    /\ calls[2].session.skipped > 0

\* every call so far worked on one set: the caller's, which a non-empty set is
\* for every importer constructed with it, or the set of a single importer
OneSetCarried == chain.initial # {} \/ Cardinality(chain.kinds) <= 1

\* C5 as stated: after parser calls without force that carry over one
\* existing-ID set, no two returned transactions have the same id and none has
\* an id that was in the set before the first call.
C5_ReturnedIdsUnique ==
    (chain.started /\ ~chain.forced /\ OneSetCarried) =>
        /\ \A i, j \in DOMAIN chain.returned :
              chain.returned[i] = chain.returned[j] => i = j
        /\ \A i \in DOMAIN chain.returned : chain.returned[i] \notin chain.initial

\* C10 as stated: after a parser constructed with the caller's set has imported
\* a file, the caller's set holds the id of every transaction counted as
\* imported, whatever the set held at construction.
C10_CallerSetUpdated ==
    \A k \in DOMAIN calls :
        \A i \in DOMAIN calls[k].transactions :
            ~calls[k].transactions[i].is_excluded =>
                calls[k].transactions[i].id \in caller_ids

-----------------------------------------------------------------------------
(* C14 *)

\* the rule of the rule list with the given id (ids are unique in a rule list)
RuleById(id) == rules[CHOOSE i \in DOMAIN rules : rules[i].id = id]

\* C14: a manual category edit clears matched_rule_id: the transaction the
\* command assign last edited has no rule id, and a transaction that carries
\* a rule id has the category that rule assigns, so that no category set by
\* hand stands beside the id of a rule.
C14_ManualEditClearsRuleId ==
    /\ last.op = "assign" => transactions[last.index].matched_rule_id = None
    /\ \A i \in DOMAIN transactions :
          transactions[i].matched_rule_id # None
              => transactions[i].category
                     = RuleById(transactions[i].matched_rule_id).target_category

-----------------------------------------------------------------------------
(* C15 *)

\* the outcome of categorize on tx with its own account set to the given iban,
\* under a categorizer that has the account lookup
OnAccount(tx, iban, force) ==
    categorize([categorizer EXCEPT !.get_account_type = "get_account_type_by_iban"],
               [tx EXCEPT !.own_account = iban], force)

\* C15: for a transaction that no enabled description rule matches, categorize
\* yields the same category, matched_rule_id and returned pair on a partnership
\* account as on a standard account, and these are what the call made yielded.
C15_SameWithoutDescriptionMatch ==
    (last.op = "categorize" /\ DescriptionHits(Pre) = {})
    => \E m \in {OnAccount(Pre, "BE_M", last.force)} :
       \E s \in {OnAccount(Pre, "BE_S", last.force)} :
          /\ m.tx.category = s.tx.category
          /\ m.tx.matched_rule_id = s.tx.matched_rule_id
          /\ m.ok = s.ok
          /\ m.rule_id = s.rule_id
          /\ Post.category = m.tx.category
          /\ Post.matched_rule_id = m.tx.matched_rule_id
          /\ last.ok = m.ok
          /\ last.rule_id = m.rule_id

\* on a partnership account a counterparty rule was applied in the second
\* phase, an enabled description rule of the list not matching
C15_Witness ==
    /\ last.op = "categorize"
    /\ AccountTypeOf(Pre) = "maatschap"
    /\ DescriptionHits(Pre) = {}
    /\ \E i \in DOMAIN rules : rules[i].match_field = "description" /\ rules[i].enabled
    /\ last.ok
    /\ last.tried = <<"description_rules", "counterparty_rules">>
    /\ Post.matched_rule_id = rules[First(Hits(Pre))].id

-----------------------------------------------------------------------------
(* C16 *)

\* what categorize_all counts for the transaction alone
CountedAlone(tx, force) == categorize_all(categorizer, <<tx>>, force).stats

\* C16 as stated: a transaction that no enabled rule matches is counted as
\* uncategorized by categorize_all exactly when its category is null after the
\* call.
C16_Original ==
    last.op = "categorize_all"
    => \A i \in DOMAIN last.before :
          Hits(last.before[i]) = {}
              => (CountedAlone(last.before[i], last.force).uncategorized = 1
                    <=> transactions[i].category = None)

\* C16: when categorize skips a transaction or no enabled rule matches it,
\* categorize returns (False, None) and leaves every field as it was, with and
\* without force; categorize_all leaves such a transaction as it was, counts an
\* excluded transaction as skipped and never as uncategorized, and counts a
\* transaction that is not excluded as uncategorized exactly when its category
\* is null after the call.
C16_NoMatchReported ==
    /\ (last.op = "categorize" /\ (Skips(Pre, last.force) \/ Hits(Pre) = {}))
          => Post = Pre /\ ~last.ok /\ last.rule_id = None
    /\ last.op = "categorize_all"
          => /\ \A i \in DOMAIN last.before :
                   \E one \in {CountedAlone(last.before[i], last.force)} :
                      /\ Hits(last.before[i]) = {}
                            => transactions[i] = last.before[i] /\ ~last.oks[i]
                      /\ last.before[i].is_excluded
                            => one.skipped = 1 /\ one.uncategorized = 0
                      /\ ~last.before[i].is_excluded
                            => /\ one.skipped = 0
                               /\ one.uncategorized = 1 <=> transactions[i].category = None
             /\ last.stats.uncategorized =
                   Cardinality({i \in DOMAIN transactions :
                                   /\ ~transactions[i].is_excluded
                                   /\ transactions[i].category = None})
             /\ last.stats.skipped =
                   Cardinality({i \in DOMAIN transactions : transactions[i].is_excluded})

\* a forced batch run over a transaction with a category that no rule matches,
\* left as it was and not counted as uncategorized, beside one that is counted
C16_Witness ==
    /\ last.op = "categorize_all"
    /\ last.force
    /\ last.stats.uncategorized = 1
    /\ \E i, j \in DOMAIN last.before :
          /\ Hits(last.before[i]) = {} /\ Hits(last.before[j]) = {}
          /\ ~last.before[i].is_excluded /\ ~last.before[j].is_excluded
          /\ last.before[i].category # None
          /\ transactions[i] = last.before[i]
          /\ transactions[j].category = None

\* the ledger parser calls made
CsvCalls == {k \in DOMAIN calls : calls[k].kind = "csv"}

\* the positions of a call's rows with at least 15 columns, and among them
\* those that fail to parse and those the fiscal-year filter leaves out
WideRows(c) == {i \in DOMAIN c.file.rows : c.file.rows[i].ncols >= 15}
FailingRows(c) == {i \in WideRows(c) : ~parse_row(c.file.rows[i], c.file.name).ok}
FilteredRows(c) ==
    {i \in WideRows(c) \ FailingRows(c) :
        /\ c.fiscal_year # 0
        /\ parse_row(c.file.rows[i], c.file.name).tx.booking_date[1] # c.fiscal_year}

\* the row-level entries of a session's error list
RowErrors(c) == SelectSeq(c.session.errors, LAMBDA e : e.line # 0)

\* C11: in one ledger parser call every row with at least 15 columns is
\* accounted for exactly once: the imported, skipped and excluded counts add up
\* to the rows that parse and pass the fiscal-year filter, the rows that fail to
\* parse are the row-level errors, each with its line number and in row order
\* (so rows after a failing row are still processed), and the id set grows by
\* the imported ids only.
C11_RowsAccounted ==
    \A k \in CsvCalls :
        LET c == calls[k]
        IN /\ c.session.imported + c.session.skipped + c.session.excluded
                 = Cardinality(WideRows(c)) - Cardinality(FailingRows(c))
                   - Cardinality(FilteredRows(c))
           /\ Len(RowErrors(c)) = Cardinality(FailingRows(c))
           /\ {RowErrors(c)[j].line : j \in DOMAIN RowErrors(c)}
                 = {HEADER_LINES_TO_SKIP + i : i \in FailingRows(c)}
           /\ \A j \in DOMAIN RowErrors(c) : \A h \in 1..(j - 1) :
                 RowErrors(c)[h].line < RowErrors(c)[j].line
           /\ c.ids_after = c.ids_before
                 \cup {c.transactions[j].id : j \in {h \in DOMAIN c.transactions :
                                                       ~c.transactions[h].is_excluded}}

\* a failing row followed by a row that was imported, in a call with a filter
C11_Witness ==
    \E k \in CsvCalls :
        /\ 1 \in FailingRows(calls[k])
        /\ calls[k].session.imported = 1
        /\ Len(calls[k].session.errors) = 1

\* the file-level entries of a call's error list
FileErrors(c) == SelectSeq(c.session.errors, LAMBDA e : e.line = 0)

\* C12 as stated: a call whose input cannot be opened, read or decoded returns
\* no transaction and exactly one error, and a file-level error never comes
\* with a returned transaction.
C12_Original ==
    \A k \in CsvCalls :
        /\ (~calls[k].file.readable \/ calls[k].file.broken) =>
              /\ calls[k].transactions = <<>>
              /\ Len(calls[k].session.errors) = 1
              /\ calls[k].session.errors[1].line = 0
        /\ FileErrors(calls[k]) # <<>> => calls[k].transactions = <<>>

\* C12: a ledger parser call always returns. When the input cannot be opened
\* it returns no transaction, zero counters, an unchanged id set and exactly one
\* error, which has no line number. When reading fails after some rows, the
\* rows before the failure keep their transactions, counts and row errors, and
\* one file-level error is added after them. A session never has more than one
\* file-level error, and has one exactly when opening or reading failed.
C12_FileErrorReported ==
    \A k \in CsvCalls :
        LET c == calls[k]
            whole == csv_import_file(c.ids_before, CsvFile(TRUE, c.file.rows, FALSE),
                                     c.fiscal_year, c.force)
        IN /\ ~c.file.readable =>
                 /\ c.transactions = <<>>
                 /\ c.session = [NewSession EXCEPT !.errors = c.session.errors]
                 /\ Len(c.session.errors) = 1
                 /\ c.session.errors[1].line = 0
                 /\ c.ids_after = c.ids_before
           /\ Len(FileErrors(c)) = IF ~c.file.readable \/ c.file.broken THEN 1 ELSE 0
           /\ c.file.broken =>
                 /\ c.transactions = whole.transactions
                 /\ c.session.imported = whole.session.imported
                 /\ c.session.skipped = whole.session.skipped
                 /\ c.session.excluded = whole.session.excluded
                 /\ c.session.errors = Append(whole.session.errors,
                                              c.session.errors[Len(c.session.errors)])
                 /\ c.session.errors[Len(c.session.errors)].line = 0

\* a call on which reading failed after a row that was imported
C12_Witness ==
    \E k \in CsvCalls :
        /\ calls[k].file.broken
        /\ calls[k].session.imported = 1
        /\ Len(FileErrors(calls[k])) = 1

\* C13: a ledger row that matches a settlement pattern is returned with
\* is_excluded = true and the fixed reason and is counted in excluded, not in
\* imported; the returned list has imported + excluded transactions, of which
\* exactly the excluded ones are settlement rows.
C13_SettlementExcluded ==
    \A k \in CsvCalls :
        LET c == calls[k]
            excluded == {j \in DOMAIN c.transactions : c.transactions[j].is_excluded}
        IN /\ Len(c.transactions) = c.session.imported + c.session.excluded
           /\ Cardinality(excluded) = c.session.excluded
           /\ \A j \in DOMAIN c.transactions :
                 /\ c.transactions[j].is_excluded <=>
                       is_mastercard_settlement(c.transactions[j])
                 /\ c.transactions[j].is_excluded =>
                       c.transactions[j].exclusion_reason
                           = "Mastercard settlement - details in PDF"
                 /\ ~c.transactions[j].is_excluded =>
                       c.transactions[j].exclusion_reason = None
           /\ \A i \in WideRows(c) \ (FailingRows(c) \cup FilteredRows(c)) :
                 is_mastercard_settlement(parse_row(c.file.rows[i], c.file.name).tx) =>
                     \E j \in excluded :
                         c.transactions[j].id = parse_row(c.file.rows[i], c.file.name).tx.id

\* a call that returned a settlement row and an imported row
C13_Witness ==
    \E k \in CsvCalls :
        /\ calls[k].session.excluded = 1
        /\ calls[k].session.imported = 1
        /\ Len(calls[k].transactions) = 2

-----------------------------------------------------------------------------
(* C19 *)

\* the transactions the calls of one parser returned
Returned(kind) ==
    UNION {{calls[k].transactions[j] : j \in DOMAIN calls[k].transactions} :
              k \in {h \in DOMAIN calls : calls[h].kind = kind}}

\* the statement year of a statement parser call
StatementYearOf(c) ==
    IF c.file.header_year # 0 THEN c.file.header_year
    ELSE IF c.fiscal_year # 0 THEN c.fiscal_year ELSE now_year

-----------------------------------------------------------------------------
(* Claims on the command line *)

\* C9 as stated: every transaction of the persisted dataset before a command
\* is in the persisted dataset after it.
C9_NeverDeleted ==
    cmd.op # "none" =>
        \A i \in DOMAIN cmd.before :
            \E j \in DOMAIN disk : disk[j].id = cmd.before[i].id

-----------------------------------------------------------------------------
(* Rule extractor (src/services/rule_extractor.py) *)

MaxPatterns == 2    \* most patterns of one file's frequency table
MaxFiles == 2       \* most files handed to one extraction

\* f"rule-{n:03d}"
RuleIdFormat(n) ==
    "rule-" \o (IF n < 10 THEN "00" ELSE IF n < 100 THEN "0" ELSE "") \o ToString(n)

\* sum(categories.values()): categories is a pattern's dict category -> count,
\* kept as the sequence of its items in insertion order
RECURSIVE total_count_to(_, _)
total_count_to(categories, n) ==
    IF n = 0 THEN 0 ELSE total_count_to(categories, n - 1) + categories[n].count

total_count(categories) == total_count_to(categories, Len(categories))

\* sorted(mappings.items(), key=lambda x: -sum(x[1].values())): a stable sort,
\* so of two patterns with equal totals the one inserted first stays first
RECURSIVE InsertByTotal(_, _)
InsertByTotal(e, s) ==
    IF s = <<>> THEN <<e>>
    ELSE IF total_count(s[Len(s)].categories) >= total_count(e.categories)
         THEN Append(s, e)
         ELSE Append(InsertByTotal(e, SubSeq(s, 1, Len(s) - 1)), s[Len(s)])

RECURSIVE sorted_by_total(_)
sorted_by_total(mappings) ==
    IF mappings = <<>> THEN <<>>
    ELSE InsertByTotal(mappings[Len(mappings)],
                       sorted_by_total(SubSeq(mappings, 1, Len(mappings) - 1)))

\* max(categories.items(), key=lambda x: x[1]): the first item of largest count
dominant_cat(categories) ==
    categories[CHOOSE i \in DOMAIN categories :
                  /\ \A j \in DOMAIN categories : categories[j].count <= categories[i].count
                  /\ \A j \in 1..(i - 1) : categories[j].count < categories[i].count]

\* mutant of too_ambiguous: a share of exactly 80% is ambiguous as well
too_ambiguous_at_threshold(dominant_count, total) == 5 * dominant_count <= 4 * total

\* dominant_ratio = dominant_cat[1] / total_count; dominant_ratio < 0.8 (the
\* quotient of two counts is below the literal 0.8 exactly when 5 * count is
\* below 4 * total)
too_ambiguous(dominant_count, total) == 5 * dominant_count < 4 * total

\* the CategoryRule that _generate_rules constructs
ExtractedRule(n, pattern, target_category, priority) ==
    [id |-> RuleIdFormat(n), pattern |-> pattern, pattern_type |-> "contains",
     match_field |-> "counterparty_name", target_category |-> target_category,
     priority |-> priority, enabled |-> TRUE, is_therapeutic |-> None,
     source |-> "extracted"]

\* RuleExtractor._generate_rules: the loop over the sorted items, from item i on
RECURSIVE generate_rules_from(_, _, _, _)
generate_rules_from(items, i, min_occurrences, out) ==
    IF i > Len(items) THEN [rules |-> out.rules, ambiguous |-> out.ambiguous]
    ELSE At(LAMBDA next : generate_rules_from(items, i + 1, min_occurrences, next),
            LET pattern == items[i].pattern
                categories == items[i].categories
                total == total_count(categories)
            IN IF total < min_occurrences THEN out
               ELSE IF Len(categories) > 1
                       /\ too_ambiguous(dominant_cat(categories).count, total)
               THEN [out EXCEPT !.ambiguous =
                        Append(@, [pattern |-> pattern, categories |-> categories,
                                   total |-> total])]
               ELSE [out EXCEPT !.rules =
                        Append(@, ExtractedRule(Len(out.rules) + 1, pattern,
                                      IF Len(categories) > 1
                                      THEN dominant_cat(categories).category
                                      ELSE categories[1].category,
                                      out.priority)),
                                !.priority = @ + 1])

generate_rules(mappings, min_occurrences) ==
    generate_rules_from(sorted_by_total(mappings), 1, min_occurrences,
                        [rules |-> <<>>, ambiguous |-> <<>>, priority |-> 10])

\* RuleExtractor.extract_from_excel: a workbook that cannot be read or has no
\* matching sheet gives nothing; otherwise the rules of the frequency table
\* gathered from its matching sheets
extract_from_excel(file, min_occurrences) ==
    IF ~file.readable \/ ~file.has_sheet
    THEN [rules |-> <<>>, ambiguous |-> <<>>]
    ELSE generate_rules(file.mappings, min_occurrences)

\* the loop of extract_rules_from_excel_files over the files, from file i on
RECURSIVE extract_all_from(_, _, _, _)
extract_all_from(files, i, min_occurrences, all) ==
    IF i > Len(files) THEN all
    ELSE IF files[i].suffix \notin {".xlsx", ".xls"}
    THEN extract_all_from(files, i + 1, min_occurrences, all)
    ELSE At(LAMBDA r : extract_all_from(files, i + 1, min_occurrences,
                            [rules |-> all.rules \o r.rules,
                             ambiguous |-> all.ambiguous \o r.ambiguous]),
            extract_from_excel(files[i], min_occurrences))

\* the deduplication by lower-cased pattern: the first rule of a pattern stays
RECURSIVE unique_rules(_)
unique_rules(all_rules) ==
    IF all_rules = <<>> THEN <<>>
    ELSE LET front == unique_rules(SubSeq(all_rules, 1, Len(all_rules) - 1))
             rule == all_rules[Len(all_rules)]
         IN IF \E j \in DOMAIN front : lower(front[j].pattern) = lower(rule.pattern)
            THEN front
            ELSE Append(front, rule)

\* the renumbering of priorities and ids
renumbered(rs) ==
    [i \in DOMAIN rs |-> [rs[i] EXCEPT !.priority = i * 10, !.id = RuleIdFormat(i)]]

extract_rules_from_excel_files(files, min_occurrences) ==
    At(LAMBDA all : [rules |-> renumbered(unique_rules(all.rules)),
                     ambiguous |-> all.ambiguous],
       extract_all_from(files, 1, min_occurrences, [rules |-> <<>>, ambiguous |-> <<>>]))

-----------------------------------------------------------------------------
(* The inputs of the rule extractor *)

Patterns == {<<"A", "c", "m", "e">>, <<"A", "C", "M", "E">>, <<"B", "o", "l", "t">>}
CategoryIds == {"omzet", "telefonie"}

Item(category, count) == [category |-> category, count |-> count]

\* a pattern's category counts: one category, or two with the shares 6/4, 9/1,
\* 1/9, 4/1 (80%), 7/2 and 1/1
CategoryCounts ==
    {<<Item(c, n)>> : c \in CategoryIds, n \in {1, 2, 10}}
    \cup {<<Item(c1, n[1]), Item(c2, n[2])>> :
            c1 \in {"omzet"}, c2 \in {"telefonie"},
            n \in {<<6, 4>>, <<9, 1>>, <<1, 9>>, <<4, 1>>, <<7, 2>>, <<1, 1>>}}
    \cup {<<Item(c1, n[1]), Item(c2, n[2])>> :
            c1 \in {"telefonie"}, c2 \in {"omzet"},
            n \in {<<6, 4>>, <<9, 1>>, <<1, 9>>, <<4, 1>>, <<7, 2>>, <<1, 1>>}}

\* the frequency tables: distinct patterns in insertion order
FrequencyTables ==
    {m \in SeqsUpTo([pattern : Patterns, categories : CategoryCounts], MaxPatterns) :
        \A i, j \in DOMAIN m : i # j => m[i].pattern # m[j].pattern}

ExcelFile(name, suffix, readable, has_sheet, mappings) ==
    [name |-> name, suffix |-> suffix, readable |-> readable,
     has_sheet |-> has_sheet, mappings |-> mappings]

\* the workbooks handed to extract_rules_from_excel_files: two that spell one
\* pattern differently, one with another pattern, one with an ambiguous
\* pattern, a file that is no workbook, and a workbook that cannot be read
ExcelFiles ==
    {ExcelFile("2023.xlsx", ".xlsx", TRUE, TRUE,
               <<[pattern |-> <<"A", "c", "m", "e">>, categories |-> <<Item("omzet", 2)>>]>>),
     ExcelFile("2024.xlsx", ".xlsx", TRUE, TRUE,
               <<[pattern |-> <<"A", "C", "M", "E">>, categories |-> <<Item("telefonie", 3)>>],
                 [pattern |-> <<"B", "o", "l", "t">>, categories |-> <<Item("omzet", 1)>>]>>),
     ExcelFile("2022.xls", ".xls", TRUE, TRUE,
               <<[pattern |-> <<"B", "o", "l", "t">>, categories |-> <<Item("telefonie", 2)>>]>>),
     ExcelFile("2021.xlsx", ".xlsx", TRUE, TRUE,
               <<[pattern |-> <<"B", "o", "l", "t">>,
                  categories |-> <<Item("omzet", 6), Item("telefonie", 4)>>]>>),
     ExcelFile("notes.csv", ".csv", TRUE, TRUE,
               <<[pattern |-> <<"A", "c", "m", "e">>, categories |-> <<Item("telefonie", 2)>>]>>),
     ExcelFile("locked.xlsx", ".xlsx", FALSE, FALSE, <<>>),
     ExcelFile("empty.xlsx", ".xlsx", TRUE, FALSE, <<>>)}

MinOccurrences == {1, 2, 3}

-----------------------------------------------------------------------------
(* Operations of the rule extractor *)

\* RuleExtractor(min_occurrences).extract_from_excel(file) on the one file
ExtractFromExcel ==
    /\ Len(extraction.files) = 1
    /\ \E r \in {extract_from_excel(extraction.files[1], extraction.min_occurrences)} :
          extraction' = [extraction EXCEPT !.op = "extract_from_excel",
                                           !.rules = r.rules,
                                           !.ambiguous = r.ambiguous]
    /\ UNCHANGED <<statement, parsing, report, evars, ivars, cvars>>

\* extract_rules_from_excel_files(files, min_occurrences=...)
ExtractFiles ==
    /\ \E r \in {extract_rules_from_excel_files(extraction.files,
                                                extraction.min_occurrences)} :
          extraction' = [extraction EXCEPT !.op = "extract_rules_from_excel_files",
                                           !.rules = r.rules,
                                           !.ambiguous = r.ambiguous]
    /\ UNCHANGED <<statement, parsing, report, evars, ivars, cvars>>

\* The extraction specification: the files and the threshold of a call are
\* drawn first, one workbook with any frequency table of the bounds or a list
\* of the workbooks above, and the extractor's entry points are applied to them.
InitExtract ==
    /\ \E files \in {<<ExcelFile("2023.xlsx", ".xlsx", TRUE, TRUE, mappings)>> :
                        mappings \in FrequencyTables}
                    \cup SeqsUpTo(ExcelFiles, MaxFiles),
          min_occurrences \in MinOccurrences :
            extraction = [NoExtraction EXCEPT !.files = files,
                                              !.min_occurrences = min_occurrences]
    /\ IdleStatement
    /\ IdleAmount
    /\ IdleReport
    /\ IdleEngine
    /\ IdleImport
    /\ IdleCli

NextExtract ==
    \/ ExtractFromExcel
    \/ ExtractFiles

SpecExtract == InitExtract /\ [][NextExtract]_vars

-----------------------------------------------------------------------------
(* C17 *)

\* positions of the rules and of the ambiguous entries of the last extraction
\* that carry the pattern
RulesFor(pattern) ==
    {j \in DOMAIN extraction.rules : extraction.rules[j].pattern = pattern}
AmbiguousFor(pattern) ==
    {j \in DOMAIN extraction.ambiguous : extraction.ambiguous[j].pattern = pattern}

\* the one rule of the pattern is a 'contains' rule on the counterparty name
\* for the category
OneRuleFor(pattern, category) ==
    /\ Cardinality(RulesFor(pattern)) = 1
    /\ AmbiguousFor(pattern) = {}
    /\ \A j \in RulesFor(pattern) :
          /\ extraction.rules[j].pattern_type = "contains"
          /\ extraction.rules[j].match_field = "counterparty_name"
          /\ extraction.rules[j].target_category = category
          /\ extraction.rules[j].enabled

\* C17: from a frequency table _generate_rules emits, for each pattern with at
\* least min_occurrences occurrences, one 'contains' rule for its category if
\* it has one category, one rule for the dominant category if it has several
\* and the dominant share is at least 80%, and otherwise no rule but one
\* ambiguous entry with the full category breakdown and the total; a pattern
\* with fewer occurrences is in neither output, and nothing else is.
C17_RulesFromFrequencies ==
    extraction.op = "extract_from_excel"
    => LET mappings == extraction.files[1].mappings
       IN /\ \A i \in DOMAIN mappings :
                LET pattern == mappings[i].pattern
                    categories == mappings[i].categories
                    total == total_count(categories)
                    shares == {k \in DOMAIN categories : 5 * categories[k].count >= 4 * total}
                IN IF total < extraction.min_occurrences
                   THEN RulesFor(pattern) = {} /\ AmbiguousFor(pattern) = {}
                   ELSE IF Len(categories) = 1
                   THEN OneRuleFor(pattern, categories[1].category)
                   ELSE IF shares # {}
                   THEN \A k \in shares : OneRuleFor(pattern, categories[k].category)
                   ELSE /\ RulesFor(pattern) = {}
                        /\ Cardinality(AmbiguousFor(pattern)) = 1
                        /\ \A j \in AmbiguousFor(pattern) :
                              /\ extraction.ambiguous[j].categories = categories
                              /\ extraction.ambiguous[j].total = total
          /\ \A j \in DOMAIN extraction.rules :
                \E i \in DOMAIN mappings : mappings[i].pattern = extraction.rules[j].pattern
          /\ \A j \in DOMAIN extraction.ambiguous :
                \E i \in DOMAIN mappings : mappings[i].pattern = extraction.ambiguous[j].pattern

\* a table with a 9/1 pattern that gave a rule for the 9-count category and a
\* 6/4 pattern reported as ambiguous
C17_Witness ==
    /\ extraction.op = "extract_from_excel"
    /\ Len(extraction.rules) = 1
    /\ Len(extraction.ambiguous) = 1
    /\ \E i, j \in DOMAIN extraction.files[1].mappings :
          /\ extraction.files[1].mappings[i].categories
                = <<Item("telefonie", 1), Item("omzet", 9)>>
          /\ extraction.files[1].mappings[j].categories
                = <<Item("omzet", 6), Item("telefonie", 4)>>
    /\ extraction.rules[1].target_category = "omzet"
    /\ extraction.ambiguous[1].total = 10

-----------------------------------------------------------------------------
(* C18 *)

\* the orderings of a list of files
Orderings(files) ==
    {[i \in DOMAIN files |-> files[p[i]]] :
        p \in {q \in [DOMAIN files -> DOMAIN files] :
                  \A i, j \in DOMAIN files : i # j => q[i] # q[j]}}

\* C18: extract_rules_from_excel_files returns the same rules (pattern, target
\* category, priority and id) for every ordering of the same files, no two of
\* them with patterns equal ignoring case, and with priorities 10, 20, ... and
\* ids rule-001, rule-002, ... in list order.
C18_OrderIndependent ==
    extraction.op = "extract_rules_from_excel_files"
    => /\ \A files \in Orderings(extraction.files) :
             extract_rules_from_excel_files(files, extraction.min_occurrences).rules
                = extraction.rules
       /\ \A i, j \in DOMAIN extraction.rules :
             i # j => lower(extraction.rules[i].pattern) # lower(extraction.rules[j].pattern)
       /\ \A i \in DOMAIN extraction.rules :
             /\ extraction.rules[i].priority = i * 10
             /\ extraction.rules[i].id = RuleIdFormat(i)

-----------------------------------------------------------------------------
(* The inputs of the statement parser *)

TableDate(layout, d, m, y) == [layout |-> layout, d |-> d, m |-> m, y |-> y, text |-> <<>>]
TableWord(word) == [layout |-> "text", d |-> 0, m |-> 0, y |-> 0, text |-> <<word>>]

\* the first cell of a table row: a date with a long or a short year, a day
\* the month does not have, a column title and another word
TableDates ==
    {TableDate("d/m/Y", 3, 10, 2025), TableDate("d/m/y", 3, 10, 24),
     TableDate("d/m/Y", 31, 2, 2025), TableWord("Datum"), TableWord("Totaal")}

\* the amount cell: an expense, refunds, zero amounts, amounts with a sign of
\* their own, a cell that is no amount and an empty cell
TableAmounts ==
    {<<"3", "8", ",", "5", "1">>, <<"+", "1", "0", ",", "0", "0">>,
     <<" ", "+", " ", "1", "0", ",", "0", "0">>, <<"0", ",", "0", "0">>,
     <<"+", "0", ",", "0", "0">>, <<"-", "5", ",", "0", "0">>,
     <<"+", "-", "5", ",", "0", "0">>, <<"5", ",", "0", "0", "-">>,
     <<"n", "/", "a">>, <<>>}

TableRow(ncols, date, description, amount) ==
    [ncols |-> ncols, date |-> date, settlement |-> TableDate("d/m/Y", 6, 10, 2025),
     description |-> description, amount |-> amount]

TableRows ==
    {TableRow(4, date, <<"S", "H", "O", "P">>, amount) :
        date \in TableDates, amount \in TableAmounts}
    \cup {TableRow(4, TableDate("d/m/Y", 3, 10, 2025), <<" ">>, <<"3", "8", ",", "5", "1">>),
          TableRow(3, TableDate("d/m/Y", 3, 10, 2025), <<"S", "H", "O", "P">>, <<>>)}

\* text lines: an expense, a refund, two lines of amount zero and a line
\* without the currency token
LineZero == TextLine(5, 10, <<"S", "H", "O", "P">>, <<"0", ",", "0", "0">>, "EUR-")
LineZeroRefund == TextLine(5, 10, <<"S", "H", "O", "P">>, <<"0">>, "EUR+")
StatementLines == PdfLines \cup {LineZero, LineZeroRefund}

\* one amount written with one and with two decimals
LineHalf == TextLine(3, 10, <<"S", "H", "O", "P">>, <<"3", "8", ",", "5">>, "EUR-")
LineHalfLong == TextLine(3, 10, <<"S", "H", "O", "P">>, <<"3", "8", ",", "5", "0">>, "EUR-")

\* statements in which a line comes again, next to its first occurrence or
\* with another line between them
MaxRepeat == 3
RepeatLines ==
    {lines \in SeqsUpTo({LineShop, LineRefund, LineHalf, LineHalfLong}, MaxRepeat) :
        Len(lines) >= 2}

\* the statements: one page, as a table or as text lines
StatementFiles ==
    {[name |-> "62_statement.pdf", statement_number |-> <<"6", "2">>,
      readable |-> TRUE, rows |-> rows] : rows \in SeqsUpTo(TableRows, MaxRows) \ {<<>>}}
    \cup {[name |-> "62_statement.pdf", statement_number |-> <<"6", "2">>,
           readable |-> TRUE, header_year |-> y, lines |-> lines] :
             y \in {0, 2025},
             lines \in (SeqsUpTo(StatementLines, MaxRows) \ {<<>>}) \cup RepeatLines}
    \cup {[name |-> "62_statement.pdf", statement_number |-> <<"6", "2">>,
           readable |-> FALSE, rows |-> <<>>]}
    \cup {[name |-> "62_statement.pdf", statement_number |-> <<"6", "2">>,
           readable |-> FALSE, header_year |-> 0, lines |-> <<>>]}

StatementIds == {{}, {<<"MC-", "6", "2", "-", "0001">>}}

-----------------------------------------------------------------------------
(* Operations of the statement parser on one statement *)

StatementCalled(op, run) ==
    [statement EXCEPT !.op = op,
                      !.ids_after = run.ids,
                      !.transactions = run.transactions,
                      !.session = run.session]

\* PDFImporter(existing_ids).import_file(file, fiscal_year, force)
ImportFile ==
    /\ "rows" \in DOMAIN statement.file
    /\ \E run \in {pdf_import_file(statement.ids_before, statement.file,
                                   statement.fiscal_year, statement.force)} :
          statement' = StatementCalled("import_file", run)
    /\ UNCHANGED <<extraction, parsing, report, evars, ivars, cvars>>

\* PDFImporter(existing_ids).import_from_bytes(file, fiscal_year, force)
ImportFromBytes ==
    /\ "lines" \in DOMAIN statement.file
    /\ \E run \in {pdf_import_from_bytes(statement.ids_before, statement.file,
                                         statement.fiscal_year, statement.force)} :
          statement' = StatementCalled("import_from_bytes", run)
    /\ UNCHANGED <<extraction, parsing, report, evars, ivars, cvars>>

\* The statement specification: the statement, the filter, force and the
\* existing-ID set of one call are drawn first, and the entry point of the
\* statement's shape is applied to them.
InitStatement ==
    /\ \E file \in StatementFiles, fiscal_year \in FiscalYears, force \in BOOLEAN,
          ids \in StatementIds :
            statement = [NoStatement EXCEPT !.file = file,
                                            !.fiscal_year = fiscal_year,
                                            !.force = force,
                                            !.ids_before = ids]
    /\ IdleExtract
    /\ IdleEngine
    /\ IdleImport
    /\ IdleCli
    /\ IdleAmount
    /\ IdleReport

NextStatement ==
    \/ ImportFile
    \/ ImportFromBytes

SpecStatement == InitStatement /\ [][NextStatement]_vars

-----------------------------------------------------------------------------
(* C20 *)

\* the amount written in a cell or a line is zero: it has digits, all of them 0
WrittenZero(text) ==
    /\ \E i \in DOMAIN text : text[i] \in DigitChars
    /\ \A i \in DOMAIN text : text[i] \in DigitChars => text[i] = "0"

\* the amount has the sign of the marker
SignFollows(amount, positive) == IF positive THEN amount > 0 ELSE amount < 0

\* the year given to the lines of the last call
LineYear ==
    IF statement.file.header_year # 0 THEN statement.file.header_year
    ELSE IF statement.fiscal_year # 0 THEN statement.fiscal_year ELSE now_year

\* C20: every transaction the statement parser returns has a non-zero amount
\* with the sign of its marker. A table row gives a negative amount unless its
\* amount cell starts with '+', and then a positive one; a text line gives a
\* negative amount when '-' follows the currency token and a positive one when
\* '+' does; a row or line whose amount is zero gives no transaction. With
\* force and without a fiscal-year filter the returned transactions are those
\* of the rows or lines that parse, in order.
C20_SignFollowsMarker ==
    /\ \A j \in DOMAIN statement.transactions : statement.transactions[j].amount # 0
    /\ statement.op = "import_file" =>
          LET rows == statement.file.rows
              wide == {i \in DOMAIN rows : rows[i].ncols >= 4}
              Parsed(i, sequence) == pdf_parse_row(rows[i], statement.file.name,
                                                   statement.file.statement_number, sequence)
              good == {i \in wide : Parsed(i, 1).ok}
          IN /\ \A i \in good :
                   /\ SignFollows(Parsed(i, 1).tx.amount,
                                  startswith(strip(rows[i].amount), <<"+">>))
                   /\ ~WrittenZero(rows[i].amount)
             /\ \A j \in DOMAIN statement.transactions :
                   \E i \in good : statement.transactions[j].amount = Parsed(i, 1).tx.amount
             /\ (statement.force /\ statement.fiscal_year = 0) =>
                   /\ Len(statement.transactions) = Cardinality(good)
                   /\ \A j \in DOMAIN statement.transactions :
                         \E i \in good :
                            /\ Cardinality({h \in good : h <= i}) = j
                            /\ statement.transactions[j] = Parsed(i, j).tx
    /\ statement.op = "import_from_bytes" =>
          LET lines == statement.file.lines
              Parsed(i, sequence) == parse_text_line(lines[i], statement.file.name,
                                                     statement.file.statement_number,
                                                     sequence, LineYear)
              good == {i \in DOMAIN lines : Parsed(i, 1).ok}
          IN /\ \A i \in good :
                   /\ lines[i].suffix \in {"EUR+", "EUR-"}
                   /\ SignFollows(Parsed(i, 1).tx.amount, lines[i].suffix = "EUR+")
                   /\ ~WrittenZero(lines[i].amount)
             /\ \A j \in DOMAIN statement.transactions :
                   \E i \in good : statement.transactions[j].amount = Parsed(i, 1).tx.amount
             /\ (statement.force /\ statement.fiscal_year = 0) =>
                   /\ Len(statement.transactions) = Cardinality(good)
                   /\ \A j \in DOMAIN statement.transactions :
                         \E i \in good :
                            /\ Cardinality({h \in good : h <= i}) = j
                            /\ statement.transactions[j] = Parsed(i, j).tx

\* a table page with a zero row and a refund row: one transaction came back,
\* positive, and it is the refund
C20_Witness ==
    /\ statement.op = "import_file"
    /\ Len(statement.file.rows) = 2
    /\ WrittenZero(statement.file.rows[1].amount)
    /\ statement.file.rows[1].date = TableDate("d/m/Y", 3, 10, 2025)
    /\ startswith(statement.file.rows[2].amount, <<"+">>)
    /\ Len(statement.transactions) = 1
    /\ statement.transactions[1].amount = 1000

-----------------------------------------------------------------------------
(* C21 *)

\* the positions of the rows or lines of the last statement call that give a
\* transaction, and of those that pass the fiscal-year filter as well
GoodParts ==
    IF "rows" \in DOMAIN statement.file
    THEN {i \in DOMAIN statement.file.rows :
            /\ statement.file.rows[i].ncols >= 4
            /\ pdf_parse_row(statement.file.rows[i], statement.file.name,
                             statement.file.statement_number, 1).ok}
    ELSE {i \in DOMAIN statement.file.lines :
            parse_text_line(statement.file.lines[i], statement.file.name,
                            statement.file.statement_number, 1, LineYear).ok}

BookingYearOf(i) ==
    IF "rows" \in DOMAIN statement.file
    THEN pdf_parse_row(statement.file.rows[i], statement.file.name,
                       statement.file.statement_number, 1).tx.booking_date[1]
    ELSE LineYear

KeptParts ==
    {i \in GoodParts : statement.fiscal_year = 0 \/ BookingYearOf(i) = statement.fiscal_year}

-----------------------------------------------------------------------------
(* parse_belgian_amount on its own (src/lib/belgian_numbers.py) *)

MaxAmountLen == 4    \* longest text of the enumerated amount texts

AmountChars == {"0", "1", ".", ",", "-", "+", " ", "a"}

\* the texts handed to parse_belgian_amount: every text of the characters above
\* with at most two digits after its first comma (amounts are kept in cents),
\* and the texts of the examples
AmountTexts ==
    {t \in SeqsUpTo(AmountChars, MaxAmountLen) :
        \A i \in DOMAIN t :
            (t[i] = "," /\ \A h \in 1..(i - 1) : t[h] # ",")
                => Cardinality({j \in DOMAIN t : j > i /\ t[j] \in DigitChars}) <= 2}
    \cup {<<"1", ".", "2", "3", "4", ",", "5", "6">>, <<"-", "3", "8", ",", "5", "1">>,
          <<"5", "0">>, <<"a", "b", "c">>, <<"3", "8", ",", "5", "1", "-">>,
          <<"EUR", " ", "1", ".", "2", "3", "4", ",", "5", "6">>,
          <<"1", "2", ",", "5", "0", " ", "euro">>}

\* one call parse_belgian_amount(value)
ParseAmount ==
    /\ \E r \in {parse_belgian_amount(parsing.value)} :
          parsing' = [parsing EXCEPT !.op = "parse_belgian_amount",
                                     !.ok = r.ok,
                                     !.cents = IF r.ok THEN r.cents ELSE 0,
                                     !.message = IF r.ok THEN <<>>
                                                 ELSE amount_error(parsing.value)]
    /\ UNCHANGED <<extraction, statement, report, evars, ivars, cvars>>

InitAmount ==
    /\ \E value \in AmountTexts : parsing = [NoParsing EXCEPT !.value = value]
    /\ IdleExtract
    /\ IdleStatement
    /\ IdleReport
    /\ IdleEngine
    /\ IdleImport
    /\ IdleCli

NextAmount == ParseAmount

SpecAmount == InitAmount /\ [][NextAmount]_vars

-----------------------------------------------------------------------------
(* C22 *)

\* the text without blanks and currency marks
Bare(value) == SelectSeq(value, LAMBDA c : c \notin {" ", "EUR", "euro"})

SignTexts == {<<>>, <<"-">>, <<"+">>}

\* the text is digits with thousands points and at most one comma
IsBody(t) ==
    /\ \A i \in DOMAIN t : t[i] \in DigitChars \cup {".", ","}
    /\ \E i \in DOMAIN t : t[i] \in DigitChars
    /\ Cardinality({i \in DOMAIN t : t[i] = ","}) <= 1

\* the ways to read the text as a sign, a body and a sign
Readings(value) ==
    {r \in [pre : SignTexts, post : SignTexts, from : 1..(Len(Bare(value)) + 1),
            to : 0..Len(Bare(value))] :
        /\ r.from = Len(r.pre) + 1
        /\ r.to = Len(Bare(value)) - Len(r.post)
        /\ r.from <= r.to
        /\ SubSeq(Bare(value), 1, Len(r.pre)) = r.pre
        /\ SubSeq(Bare(value), r.to + 1, Len(Bare(value))) = r.post
        /\ IsBody(SubSeq(Bare(value), r.from, r.to))}

\* the number a string of digits writes
RECURSIVE NumberOf(_)
NumberOf(digits) ==
    IF digits = <<>> THEN 0
    ELSE 10 * NumberOf(SubSeq(digits, 1, Len(digits) - 1))
         + (CHOOSE n \in 0..9 : ToString(n) = digits[Len(digits)])

\* the cents a body writes: points are thousands separators, the comma is the
\* decimal separator
BodyCents(t) ==
    LET commas == {i \in DOMAIN t : t[i] = ","}
        cut == IF commas = {} THEN Len(t) + 1 ELSE CHOOSE i \in commas : TRUE
        whole == SelectSeq(SubSeq(t, 1, cut - 1), LAMBDA c : c \in DigitChars)
        frac == SelectSeq(SubSeq(t, cut + 1, Len(t)), LAMBDA c : c \in DigitChars)
    IN 100 * NumberOf(whole)
       + (IF Len(frac) = 0 THEN 0
          ELSE IF Len(frac) = 1 THEN 10 * NumberOf(frac) ELSE NumberOf(SubSeq(frac, 1, 2)))

MaxReportTx == 2

\* the categories always left out of the report, and those of type 'excluded'
\* among the categories handed to the generator
get_excluded_categories(categories) ==
    categories \cup {"prive-opname", "loon", "verkeerde-rekening", "interne-storting", "mastercard"}

RECURSIVE amount_sum(_)
amount_sum(items) ==
    IF items = <<>> THEN 0 ELSE Head(items).amount + amount_sum(Tail(items))

is_depreciating_in_year(asset, year) ==
    /\ year >= asset.purchase_year
    /\ year <= asset.purchase_year + asset.depreciation_years - 1
    /\ ~(asset.disposal_year # 0 /\ asset.disposal_year < year)

\* one entry per depreciating asset; the annual amount is the purchase
\* amount divided by the years (the assets of the model divide exactly)
get_depreciation_for_year(assets, year) ==
    LET depreciating == SelectSeq(assets, LAMBDA a : is_depreciating_in_year(a, year))
    IN [i \in 1..Len(depreciating) |->
           [amount |-> depreciating[i].purchase_amount \div depreciating[i].depreciation_years]]

\* groupby('category') lists the groups in the order of their keys
CategoryOrder == <<"bankkosten", "prive-opname", "vervoer">>

ReportLineItem(category, amount, item_type) ==
    [category |-> category, amount |-> amount, item_type |-> item_type]

EmptyReport(fiscal_year) ==
    [fiscal_year |-> fiscal_year, income_items |-> <<>>, expense_items |-> <<>>,
     depreciation_items |-> <<>>, uncategorized_items |-> <<>>]

generate_pnl_report_with(txs, assets, categories, fiscal_year, early_return) ==
    LET year_transactions == SelectSeq(txs, LAMBDA t : t.year = fiscal_year)
        income_df == SelectSeq(year_transactions, LAMBDA t : t.category = "omzet")
        excluded == get_excluded_categories(categories)
        expense_df == SelectSeq(year_transactions,
                          LAMBDA t : t.category # None /\ t.category # "omzet"
                                     /\ t.category \notin excluded)
        groups == SelectSeq(CategoryOrder,
                      LAMBDA c : \E i \in 1..Len(expense_df) : expense_df[i].category = c)
        depreciation_entries == get_depreciation_for_year(assets, fiscal_year)
        uncategorized_df == SelectSeq(year_transactions, LAMBDA t : t.category = None)
    IN IF early_return /\ year_transactions = <<>> THEN EmptyReport(fiscal_year)
       ELSE [fiscal_year |-> fiscal_year,
             income_items |->
                 IF income_df = <<>> THEN <<>>
                 ELSE <<ReportLineItem("omzet", amount_sum(income_df), "income")>>,
             expense_items |->
                 [i \in 1..Len(groups) |->
                     ReportLineItem(groups[i],
                         amount_sum(SelectSeq(expense_df, LAMBDA t : t.category = groups[i])),
                         "expense")],
             depreciation_items |->
                 IF depreciation_entries = <<>> THEN <<>>
                 ELSE <<ReportLineItem("afschrijvingen",
                            0 - amount_sum(depreciation_entries), "depreciation")>>,
             uncategorized_items |->
                 IF uncategorized_df = <<>> THEN <<>>
                 ELSE <<ReportLineItem("Uncategorized", amount_sum(uncategorized_df),
                            "uncategorized")>>]

generate_pnl_report(txs, assets, categories, fiscal_year) ==
    generate_pnl_report_with(txs, assets, categories, fiscal_year, TRUE)

\* the totals of a report (properties of Report)
total_income(r) == amount_sum(r.income_items)
total_expenses(r) == amount_sum(r.expense_items) + amount_sum(r.depreciation_items)
profit_loss(r) == total_income(r) + total_expenses(r)
total_uncategorized(r) == amount_sum(r.uncategorized_items)

\* ---- inputs ----

ReportYears == {2024, 2025}

\* transactions as the report reads them: year of the booking date, category
\* and amount in cents
ReportTx ==
    [year : ReportYears,
     category : {"omzet", "vervoer", "bankkosten", "prive-opname", None},
     amount : {80000, 0 - 250}]

Bike == [purchase_year |-> 2023, purchase_amount |-> 210000, depreciation_years |-> 3,
         disposal_year |-> 0]
Laptop == [purchase_year |-> 2025, purchase_amount |-> 90000, depreciation_years |-> 3,
           disposal_year |-> 0]
Scooter == [purchase_year |-> 2023, purchase_amount |-> 40000, depreciation_years |-> 4,
            disposal_year |-> 2024]

AssetLists == {<<>>, <<Bike>>, <<Laptop>>, <<Scooter>>, <<Laptop, Bike>>}

\* the category ids of type 'excluded' among the generator's categories
ExcludedTypeSets == {{}, {"bankkosten"}}

GenerateReport ==
    /\ report.op = "input"
    /\ \E r \in {generate_pnl_report(report.transactions, report.assets,
                                     report.categories, report.fiscal_year)} :
           report' = [report EXCEPT !.op = "generate_pnl_report", !.result = r]
    /\ UNCHANGED <<extraction, statement, parsing, evars, ivars, cvars>>

InitReport ==
    /\ IdleEngine /\ IdleImport /\ IdleCli /\ IdleExtract /\ IdleStatement /\ IdleAmount
    /\ report \in [op : {"input"},
                   transactions : SeqsUpTo(ReportTx, MaxReportTx),
                   assets : AssetLists,
                   categories : ExcludedTypeSets,
                   fiscal_year : ReportYears,
                   result : {EmptyReport(0)}]

NextReport == GenerateReport

SpecReport == InitReport /\ [][NextReport]_vars

\* ---- C23 ----

Generated == report.op = "generate_pnl_report"

\* the sum of the amounts of the transactions at the positions in idx
RECURSIVE SumAt(_, _)
SumAt(txs, idx) ==
    IF idx = {} THEN 0
    ELSE LET i == CHOOSE j \in idx : TRUE
         IN txs[i].amount + SumAt(txs, idx \ {i})

InYear(c) ==
    {i \in 1..Len(report.transactions) :
        /\ report.transactions[i].year = report.fiscal_year
        /\ report.transactions[i].category \in c}

ExpenseCategories ==
    {c \in {"vervoer", "bankkosten", "prive-opname"} :
        c \notin report.categories
        /\ c \notin {"prive-opname", "loon", "verkeerde-rekening", "interne-storting",
                     "mastercard"}}

RECURSIVE DepreciationOf(_, _)
DepreciationOf(assets, year) ==
    IF assets = <<>> THEN 0
    ELSE (IF /\ Head(assets).purchase_year <= year
             /\ year < Head(assets).purchase_year + Head(assets).depreciation_years
             /\ (Head(assets).disposal_year = 0 \/ Head(assets).disposal_year >= year)
          THEN Head(assets).purchase_amount \div Head(assets).depreciation_years
          ELSE 0)
         + DepreciationOf(Tail(assets), year)

\* C23: a generated report has profit_loss = total_income + total_expenses,
\* total_income is the sum of the fiscal year's 'omzet' amounts, total_expenses
\* is the sum of the fiscal year's amounts in the other categories that are
\* not excluded, less the depreciation of the assets depreciating in that
\* year, and total_uncategorized is the sum of the fiscal year's amounts
\* without a category
C23_ReportTotals ==
    Generated =>
        /\ profit_loss(report.result)
               = total_income(report.result) + total_expenses(report.result)
        /\ total_income(report.result) = SumAt(report.transactions, InYear({"omzet"}))
        /\ total_expenses(report.result)
               = SumAt(report.transactions, InYear(ExpenseCategories))
                 - DepreciationOf(report.assets, report.fiscal_year)
        /\ total_uncategorized(report.result) = SumAt(report.transactions, InYear({None}))

\* the same totals for the reports of a fiscal year that has a transaction
C23_TotalsWithTransactions ==
    (Generated /\ \E i \in 1..Len(report.transactions) :
                      report.transactions[i].year = report.fiscal_year) =>
        /\ total_income(report.result) = SumAt(report.transactions, InYear({"omzet"}))
        /\ total_expenses(report.result)
               = SumAt(report.transactions, InYear(ExpenseCategories))
                 - DepreciationOf(report.assets, report.fiscal_year)
        /\ total_uncategorized(report.result) = SumAt(report.transactions, InYear({None}))

\* a report of a year with income, an expense of another year and two
\* depreciating assets
C23_Witness ==
    /\ Generated
    /\ report.fiscal_year = 2025
    /\ report.assets = <<Laptop, Bike>>
    /\ InYear({"omzet"}) # {}
    /\ \E i \in 1..Len(report.transactions) : report.transactions[i].year = 2024
    /\ total_expenses(report.result) = 0 - 100000

-----------------------------------------------------------------------------
(* C24 *)

\* the occurrences of the pattern with the category in a frequency table
RECURSIVE CountIn(_, _, _)
CountIn(mappings, pattern, category) ==
    IF mappings = <<>> THEN 0
    ELSE (IF Head(mappings).pattern = pattern
          THEN total_count(SelectSeq(Head(mappings).categories,
                                     LAMBDA item : item.category = category))
          ELSE 0)
         + CountIn(Tail(mappings), pattern, category)

\* the occurrences over all the workbooks of the call that were read
RECURSIVE CountOver(_, _, _)
CountOver(files, pattern, category) ==
    IF files = <<>> THEN 0
    ELSE (IF Head(files).suffix \in {".xlsx", ".xls"} /\ Head(files).readable
             /\ Head(files).has_sheet
          THEN CountIn(Head(files).mappings, pattern, category)
          ELSE 0)
         + CountOver(Tail(files), pattern, category)

TotalOver(pattern) ==
    CountOver(extraction.files, pattern, "omzet")
    + CountOver(extraction.files, pattern, "telefonie")

DominantOver(pattern) ==
    IF CountOver(extraction.files, pattern, "omzet")
          >= CountOver(extraction.files, pattern, "telefonie")
    THEN CountOver(extraction.files, pattern, "omzet")
    ELSE CountOver(extraction.files, pattern, "telefonie")

\* C24: for every pattern whose occurrences over all the input workbooks reach
\* min_occurrences, extract_rules_from_excel_files returns exactly one rule or
\* an ambiguous entry, never both and never neither; a pattern with several
\* categories whose dominant share over all inputs is below 80% has no rule.
C24_OneOutcomePerPattern ==
    extraction.op = "extract_rules_from_excel_files"
    => \A pattern \in Patterns :
          /\ (TotalOver(pattern) > 0 /\ TotalOver(pattern) >= extraction.min_occurrences)
             => \/ Cardinality(RulesFor(pattern)) = 1 /\ AmbiguousFor(pattern) = {}
                \/ RulesFor(pattern) = {} /\ AmbiguousFor(pattern) # {}
          /\ (TotalOver(pattern) > 0 /\ 5 * DominantOver(pattern) < 4 * TotalOver(pattern))
             => RulesFor(pattern) = {}

-----------------------------------------------------------------------------
(* Two statements imported in table shape by one importer *)

RowShop == TableRow(4, TableDate("d/m/Y", 3, 10, 2025), <<"S", "H", "O", "P">>,
                    <<"3", "8", ",", "5", "1">>)
RowBack == TableRow(4, TableDate("d/m/Y", 3, 10, 2025), <<"S", "H", "O", "P">>,
                    <<"+", "1", "0", ",", "0", "0">>)
RowOld == TableRow(4, TableDate("d/m/y", 3, 10, 24), <<"S", "H", "O", "P">>,
                   <<"3", "8", ",", "5", "1">>)
RowTotal == TableRow(4, TableWord("Totaal"), <<"S", "H", "O", "P">>,
                     <<"3", "8", ",", "5", "1">>)

\* the statements: numbers 62 and 63, 1..MaxRows rows each
TableFiles ==
    {[name |-> n[1], statement_number |-> n[2], readable |-> TRUE, rows |-> rows] :
        n \in {<<"62_statement.pdf", <<"6", "2">>>>, <<"63_statement.pdf", <<"6", "3">>>>},
        rows \in SeqsUpTo({RowShop, RowBack, RowOld, RowTotal}, MaxRows) \ {<<>>}}

\* importer = PDFImporter(); importer.import_file(first, fiscal_year, force)
ImportFirstFile ==
    /\ statement.op = "files"
    /\ \E run \in {pdf_import_file({}, statement.files[1], statement.fiscal_year,
                                   statement.force)} :
          statement' = [statement EXCEPT !.op = "first", !.ids = run.ids,
                                         !.runs = <<run>>]
    /\ UNCHANGED <<extraction, parsing, report, evars, ivars, cvars>>

\* importer.import_file(second, fiscal_year, force) on the same importer
ImportSecondFile ==
    /\ statement.op = "first"
    /\ \E run \in {pdf_import_file(statement.ids, statement.files[2],
                                   statement.fiscal_year, statement.force)} :
          statement' = [statement EXCEPT !.op = "second", !.ids = run.ids,
                                         !.runs = Append(@, run)]
    /\ UNCHANGED <<extraction, parsing, report, evars, ivars, cvars>>

InitTables ==
    /\ IdleEngine /\ IdleImport /\ IdleCli /\ IdleExtract /\ IdleAmount /\ IdleReport
    /\ statement \in [op : {"files"},
                      files : {<<a, b>> : a \in {f \in TableFiles :
                                                    f.statement_number = <<"6", "2">>},
                                          b \in TableFiles},
                      fiscal_year : {0, 2025},
                      force : {FALSE},
                      ids : {{}},
                      runs : {<<>>}]

NextTables ==
    \/ ImportFirstFile
    \/ ImportSecondFile

SpecTables == InitTables /\ [][NextTables]_vars

\* ---- C25 ----

\* the positions of the rows of the file that are transactions of the year
\* asked for
ValidRowsOf(file) ==
    {i \in DOMAIN file.rows :
        /\ file.rows[i] \in {RowShop, RowBack, RowOld}
        /\ \/ statement.fiscal_year = 0
           \/ file.rows[i] # RowOld /\ statement.fiscal_year = 2025}

\* the valid rows of the second file that the first file had too
ImportedBefore ==
    {i \in ValidRowsOf(statement.files[2]) :
        /\ statement.files[1].statement_number = statement.files[2].statement_number
        /\ \E j \in ValidRowsOf(statement.files[1]) :
              statement.files[1].rows[j] = statement.files[2].rows[i]}

\* C25: of two statements imported in table shape by one importer with
\* force = false, the second has no more rows skipped as duplicates than it
\* has rows that were imported from the first, and all its valid rows are
\* imported when none of them was imported from the first.
C25_SkippedOnlyIfImported ==
    statement.op = "second"
    => /\ statement.runs[2].session.skipped <= Cardinality(ImportedBefore)
       /\ ImportedBefore = {}
          => /\ statement.runs[2].session.imported
                   = Cardinality(ValidRowsOf(statement.files[2]))
             /\ Len(statement.runs[2].transactions)
                   = Cardinality(ValidRowsOf(statement.files[2]))

\* the same for a second statement with another statement number
C25_OtherStatementNumber ==
    (statement.op = "second"
     /\ statement.files[1].statement_number # statement.files[2].statement_number)
    => /\ statement.runs[2].session.skipped = 0
       /\ statement.runs[2].session.imported
             = Cardinality(ValidRowsOf(statement.files[2]))

-----------------------------------------------------------------------------
(* C26 *)

\* the lines of the statement that are transactions of the year asked for
LinesKept ==
    {i \in DOMAIN statement.file.lines :
        /\ line_matches(statement.file.lines[i])
        /\ statement.file.lines[i].amount \notin {<<"0">>, <<"0", ",", "0", "0">>}
        /\ \/ statement.fiscal_year = 0
           \/ LineYear = statement.fiscal_year}

\* the amount a line states, in cents
LineCents(line) ==
    IF line.suffix = "EUR-" THEN 0 - DecimalCents(CommaToPoint(line.amount))
    ELSE DecimalCents(CommaToPoint(line.amount))

SameContent(a, b) ==
    /\ a.tx_date = b.tx_date
    /\ strip(a.description) = strip(b.description)
    /\ LineCents(a) = LineCents(b)

TextCall == statement.op = "import_from_bytes" /\ ~statement.force /\ statement.file.readable

\* C26: of the lines of one statement with the same booking date, amount and
\* description only one is returned; the others are counted as skipped,
\* wherever they stand.
C26_SameContentOnce ==
    TextCall
    => /\ \A i, j \in LinesKept :
             (i < j /\ SameContent(statement.file.lines[i], statement.file.lines[j]))
             => Cardinality({k \in DOMAIN statement.transactions :
                               /\ statement.transactions[k].booking_date
                                     = <<LineYear, statement.file.lines[i].tx_date.m,
                                         statement.file.lines[i].tx_date.d>>
                               /\ statement.transactions[k].amount
                                     = LineCents(statement.file.lines[i])
                               /\ statement.transactions[k].description
                                     = strip(statement.file.lines[i].description)}) <= 1
       /\ statement.session.skipped + Len(statement.transactions) = Cardinality(LinesKept)

\* the lines kept that no earlier line kept repeats: same booking date,
\* description, marker and amount, written alike
FirstOfItsKind ==
    {i \in LinesKept :
        \A j \in LinesKept :
            j < i => ~(/\ statement.file.lines[j].tx_date = statement.file.lines[i].tx_date
                       /\ strip(statement.file.lines[j].description)
                             = strip(statement.file.lines[i].description)
                       /\ statement.file.lines[j].suffix = statement.file.lines[i].suffix
                       /\ statement.file.lines[j].amount = statement.file.lines[i].amount)}

\* C26 (amended): of the lines of one statement with the same booking date and
\* description and the same amount written alike, the first is returned and
\* every later one is counted as skipped, wherever it stands; the returned
\* transactions have different ids, and no other line is skipped.
C26_SameTextOnce ==
    TextCall
    => /\ Len(statement.transactions) = Cardinality(FirstOfItsKind)
       /\ statement.session.imported = Cardinality(FirstOfItsKind)
       /\ statement.session.skipped = Cardinality(LinesKept \ FirstOfItsKind)
       /\ \A k, l \in DOMAIN statement.transactions :
             statement.transactions[k].id = statement.transactions[l].id => k = l

\* a statement whose first and third line are the same was imported: two
\* transactions returned, one line skipped
C26_Witness ==
    /\ TextCall
    /\ statement.ids_before = {}
    /\ statement.file.lines = <<LineShop, LineRefund, LineShop>>
    /\ Len(statement.transactions) = 2
    /\ statement.session.skipped = 1

-----------------------------------------------------------------------------
(* C27 *)

\* C27: categorize_all run again right after categorize_all, with the same
\* rules, account lookup and force flag, leaves every transaction as the first
\* run left it, and with force = false the second run reports categorized = 0.
C27_Idempotent ==
    [][(/\ last.op = "categorize_all"
        /\ last'.op = "categorize_all"
        /\ last'.force = last.force)
       => /\ transactions' = transactions
          /\ ~last'.force => last'.stats.categorized = 0]_vars

\* a run without force that found the list as an earlier engine run had left
\* it, with a transaction a rule had categorized, and changed nothing
C27_Witness ==
    /\ last.op = "categorize_all"
    /\ ~last.force
    /\ last.before = transactions
    /\ last.stats.categorized = 0
    /\ \E i \in DOMAIN transactions :
          /\ transactions[i].matched_rule_id # None
          /\ ~transactions[i].is_excluded
    /\ \E i \in DOMAIN transactions :
          /\ transactions[i].category = None
          /\ ~transactions[i].is_excluded

-----------------------------------------------------------------------------
(* C28 *)

\* how often the rule stands in a rule list
TimesIn(rule, rs) == Cardinality({k \in DOMAIN rs : rs[k] = rule})

\* C28: every rule of the categorizer is in exactly one of the two views
\* (description rules, counterparty rules), and categorize reports a
\* transaction as categorized on a partnership account exactly if it does on
\* a standard account; the call made reported the same.
C28_BothAccountsAlike ==
    last.op = "categorize"
    => /\ \A i \in DOMAIN categorizer.rules :
             TimesIn(categorizer.rules[i], categorizer.description_rules)
             + TimesIn(categorizer.rules[i], categorizer.counterparty_rules)
               = TimesIn(categorizer.rules[i], categorizer.rules)
       /\ \A i \in DOMAIN categorizer.rules :
             TimesIn(categorizer.rules[i], categorizer.description_rules) = 0
             \/ TimesIn(categorizer.rules[i], categorizer.counterparty_rules) = 0
       /\ Len(categorizer.description_rules) + Len(categorizer.counterparty_rules)
             = Len(categorizer.rules)
       /\ \E m \in {OnAccount(Pre, "BE_M", last.force)} :
          \E s \in {OnAccount(Pre, "BE_S", last.force)} :
             /\ m.ok = s.ok
             /\ last.ok = m.ok

\* a call on a transaction that a partnership account categorizes by another
\* rule than a standard account does
C28_Witness ==
    /\ last.op = "categorize"
    /\ \E m \in {OnAccount(Pre, "BE_M", last.force)} :
       \E s \in {OnAccount(Pre, "BE_S", last.force)} :
          /\ m.ok /\ s.ok
          /\ m.rule_id # s.rule_id
    /\ \E i \in DOMAIN categorizer.rules :
          categorizer.rules[i].match_field = "counterparty_iban"

-----------------------------------------------------------------------------
(* Batch runs of the engine over lists in any state *)

\* a rule whose id is the empty string (CategoryRule does not check the id)
RuleNoId == [RuleA EXCEPT !.id = ""]

BatchRuleLists == CatRuleLists \cup {<<RuleB, RuleNoId>>}

\* transactions as parsed, with and without a category and a manual override
BatchTxs(id) ==
    {[tx EXCEPT !.category = category, !.is_manual_override = manual] :
        tx \in ParsedTxs(id), category \in {None, "huur"}, manual \in BOOLEAN}

InitBatch ==
    /\ rules \in BatchRuleLists
    /\ categorizer = NewCategorizer(rules, "get_account_type_by_iban")
    /\ transactions \in {<<a>> : a \in BatchTxs("t1")}
                        \cup {<<a, b>> : a \in BatchTxs("t1"), b \in BatchTxs("t2")}
    /\ last = NoCall
    /\ IdleImport /\ IdleCli /\ IdleExtract /\ IdleStatement /\ IdleAmount /\ IdleReport

NextBatch == \E force \in BOOLEAN : CategorizeAll(force)

SpecBatch == InitBatch /\ [][NextBatch]_vars

\* ---- C29 ----

\* the sum of the counts of a Counter
RECURSIVE CounterTotal(_)
CounterTotal(counter) ==
    IF DOMAIN counter = {} THEN 0
    ELSE LET k == CHOOSE x \in DOMAIN counter : TRUE
         IN counter[k] + CounterTotal([x \in DOMAIN counter \ {k} |-> counter[x]])

ExcludedAt == {i \in DOMAIN last.before : last.before[i].is_excluded}

\* the transactions the run did not categorize and that had a category
KeptCategory ==
    {i \in DOMAIN last.before \ ExcludedAt :
        ~last.oks[i] /\ last.before[i].category # None}

\* C29: the statistics of a categorize_all call: skipped is the number of
\* excluded transactions, maatschap_transactions + standard_transactions the
\* number of the others, the counts of rules_applied sum to categorized, and
\* categorized + uncategorized + skipped is the number of transactions less
\* those not excluded that kept the category they had.
C29_StatsAddUp ==
    last.op = "categorize_all"
    => /\ last.stats.skipped = Cardinality(ExcludedAt)
       /\ last.stats.maatschap_transactions + last.stats.standard_transactions
             = Len(last.before) - Cardinality(ExcludedAt)
       /\ CounterTotal(last.stats.rules_applied) = last.stats.categorized
       /\ last.stats.categorized + last.stats.uncategorized + last.stats.skipped
             = Len(last.before) - Cardinality(KeptCategory)

\* the same where every rule has an id that is not empty
C29_CountsAddUp ==
    last.op = "categorize_all"
    => /\ last.stats.skipped = Cardinality(ExcludedAt)
       /\ last.stats.maatschap_transactions + last.stats.standard_transactions
             = Len(last.before) - Cardinality(ExcludedAt)
       /\ (\A i \in DOMAIN rules : rules[i].id # "")
             => CounterTotal(last.stats.rules_applied) = last.stats.categorized
       /\ last.stats.categorized + last.stats.uncategorized + last.stats.skipped
             = Len(last.before) - Cardinality(KeptCategory)

-----------------------------------------------------------------------------
(* Session export and import (src/services/session_export.py) *)

\* date.isoformat(): the digits of YYYY-MM-DD, and date.fromisoformat
isoformat(date) == date[1] * 10000 + date[2] * 100 + date[3]
fromisoformat(text) == <<text \div 10000, (text \div 100) % 100, text % 100>>

\* str(Decimal) of an amount in cents: sign, units and the two decimals; and
\* Decimal(text)
str_decimal(cents) ==
    [negative |-> cents < 0, units |-> abs(cents) \div 100, decimals |-> abs(cents) % 100]
decimal_of(text) ==
    IF text.negative THEN 0 - (100 * text.units + text.decimals)
    ELSE 100 * text.units + text.decimals

\* Transaction.to_dict
to_dict(tx) ==
    [tx EXCEPT !.booking_date = isoformat(@),
               !.value_date = isoformat(@),
               !.amount = str_decimal(@)]

\* Transaction.from_dict: ok is false where the constructor raises
from_dict(data) ==
    LET tx == [data EXCEPT !.booking_date = fromisoformat(@),
                           !.value_date = fromisoformat(@),
                           !.amount = decimal_of(@)]
    IN [ok |-> post_init(tx), tx |-> tx]

\* list(existing_ids): the elements in some order
RECURSIVE list_of(_)
list_of(set) ==
    IF set = {} THEN <<>>
    ELSE LET x == CHOOSE y \in set : TRUE
         IN <<x>> \o list_of(set \ {x})

session_to_dict(txs, existing_ids) ==
    [transactions |-> [i \in DOMAIN txs |-> to_dict(txs[i])],
     existing_ids |-> list_of(existing_ids)]

\* dict_to_session: ok is false where a Transaction.from_dict raises
dict_to_session(data) ==
    [ok |-> \A i \in DOMAIN data.transactions : from_dict(data.transactions[i]).ok,
     transactions |-> [i \in DOMAIN data.transactions |-> from_dict(data.transactions[i]).tx],
     existing_ids |-> {data.existing_ids[i] : i \in DOMAIN data.existing_ids}]

\* ---- C30 ----

\* the ids the session holds for its transactions
SessionIds == {transactions[i].id : i \in DOMAIN transactions}

\* C30: in every state the session reaches by parsing, engine runs and category
\* edits, importing the exported session succeeds and gives back the same
\* transactions and the same id set.
C30_RoundTrip ==
    \E back \in {dict_to_session(session_to_dict(transactions, SessionIds))} :
        /\ back.ok
        /\ back.transactions = transactions
        /\ back.existing_ids = SessionIds

\* the same for the sessions whose transactions all pass the constructor's
\* checks
C30_RoundTripOfValid ==
    (\A i \in DOMAIN transactions : post_init(transactions[i]))
    => \E back \in {dict_to_session(session_to_dict(transactions, SessionIds))} :
          /\ back.ok
          /\ back.transactions = transactions
          /\ back.existing_ids = SessionIds

====
